---- MODULE Spec2Model ----
(***************************************************************************)
(* ExamVerificationApp: the credential store with lockout                  *)
(* (DatabaseService.verifyLogin), the biometric template vault             *)
(* (encryptBiometricData / decryptBiometricData), the verification         *)
(* session of VerificationScreen and its result aggregation.               *)
(*                                                                         *)
(* Eight specifications share the module:                                  *)
(*   LoginSpec       verifyLogin calls against the verifiers table         *)
(*   ConcurrentLoginSpec  verifyLogin calls interleaved at their awaits    *)
(*   LookupSpec      getCandidateByRollNumber on roll-number strings       *)
(*   AggregatorSpec  the final-status rule over every step-status vector   *)
(*   VaultSpec       encrypt / decrypt of template strings                 *)
(*   SessionSpec     the VerificationScreen state machine                  *)
(*   ShiftSpec       login, AdminScreen and the sessions started from it   *)
(*   StoreSpec       the writers of the candidates table                   *)
(***************************************************************************)
EXTENDS Integers, Sequences, FiniteSets, TLC

VARIABLES
  now,                  \* wall clock (Date.now() / CURRENT_TIMESTAMP), in ticks
  verifiers,            \* verifiers table: id -> row
  security_logs,        \* security_logs table, in insertion order
  loginCall,            \* arguments and returned outcome of the last verifyLogin
  loginCalls,           \* ConcurrentLoginSpec: the verifyLogin calls in progress
  verifiersAtStart,     \* ConcurrentLoginSpec: the verifiers table before the calls
  lookup,               \* LookupSpec: a getCandidateByRollNumber call and its effects
  stepInput,            \* AggregatorSpec: the step list handed to the rule
  aggregated,           \* AggregatorSpec: the finalStatus it produced
  vaultPlain,           \* VaultSpec: template string given to encrypt
  vaultStored,          \* VaultSpec: string held in the candidates column
  vaultOut,             \* VaultSpec: outcome of the last decrypt
  vaultTampered,        \* VaultSpec: the stored string was altered after encrypt
  mounted,              \* SessionSpec: VerificationScreen is on the navigation stack
  instance,             \* session number at which the mounted screen was created
  session,              \* number of the current verification session
  currentStep,          \* useState currentStep
  candidate,            \* useState candidate (<<>> is null)
  verificationSteps,    \* useState verificationSteps: step -> [status, confidence]
  showQRScanner,        \* useState showQRScanner
  showFaceRecognition,  \* useState showFaceRecognition
  showFingerprint,      \* useState showFingerprint
  showRetina,           \* useState showRetina
  matcher,              \* the step whose matcher call is in flight, "NONE" if none
  alerts,               \* Alert dialogs on screen, the front one first
  pendingInserts,       \* insertVerificationResult calls not yet resolved
  verification_results, \* verification_results table, in insertion order
  navigation,           \* ShiftSpec: the route under VerificationScreen, its dialog and params
  candidates,           \* StoreSpec: candidates table, in insertion order
  storeCall,            \* StoreSpec: the last write call, its input rows and its result
  client,               \* DatabaseSpec: DatabaseService.client (<<>> once closed)
  connection,           \* DatabaseSpec: state of the pg connection behind the client
  isConnected,          \* DatabaseSpec: DatabaseService.isConnected
  dbCall,               \* DatabaseSpec: the last DatabaseService call and how it ended
  audit_logs,           \* DatabaseSpec: audit_logs table, in insertion order
  monitoringInterval,   \* MonitorSpec: SystemMonitoringService.monitoringInterval
  timers,               \* MonitorSpec: interval timers the runtime keeps firing
  timersCreated,        \* MonitorSpec: number of setInterval calls so far
  healthChecks,         \* MonitorSpec: the last tick, and ticks since the last stop
  detached,             \* CaptureSpec: face captures still running behind a closed camera view
  deviceConnected       \* ScannerSpec: BiometricScanner deviceStatus.connected

loginVars   == <<now, verifiers, security_logs, loginCall>>
aggVars     == <<stepInput, aggregated>>
vaultVars   == <<vaultPlain, vaultStored, vaultOut, vaultTampered>>
screenVars  == <<currentStep, candidate, verificationSteps,
                 showQRScanner, showFaceRecognition, showFingerprint, showRetina>>
sessionVars == <<mounted, instance, session, screenVars, matcher, alerts,
                 pendingInserts, verification_results>>
concVars    == <<loginCalls, verifiersAtStart>>
storeVars   == <<candidates, storeCall>>
connVars    == <<client, connection, isConnected, dbCall>>
monitorVars == <<monitoringInterval, timers, timersCreated, healthChecks>>
serviceVars == <<connVars, audit_logs, monitorVars>>
vars        == <<loginVars, concVars, lookup, aggVars, vaultVars, sessionVars, navigation,
                 storeVars, serviceVars, detached, deviceConnected>>

nonLoginVars   == <<concVars, lookup, aggVars, vaultVars, sessionVars, navigation,
                     storeVars, serviceVars, detached, deviceConnected>>
nonAggVars     == <<loginVars, concVars, lookup, vaultVars, sessionVars, navigation,
                     storeVars, serviceVars, detached, deviceConnected>>
nonVaultVars   == <<loginVars, concVars, lookup, aggVars, sessionVars, navigation,
                     storeVars, serviceVars, detached, deviceConnected>>
nonSessionVars == <<loginVars, concVars, lookup, aggVars, vaultVars, navigation,
                     storeVars, serviceVars, detached, deviceConnected>>
nonConcVars    == <<loginCall, lookup, aggVars, vaultVars, sessionVars, navigation,
                     storeVars, serviceVars, detached, deviceConnected>>
nonLookupVars  == <<now, verifiers, loginCall, concVars, aggVars, vaultVars, sessionVars,
                     navigation, storeVars, serviceVars, detached, deviceConnected>>
nonShiftVars   == <<concVars, lookup, aggVars, vaultVars, sessionVars, storeVars, serviceVars, detached, deviceConnected>>
nonStoreVars   == <<loginVars, concVars, lookup, aggVars, vaultVars, sessionVars, navigation, serviceVars, detached, deviceConnected>>
nonDatabaseVars == <<now, verifiers, loginCall, concVars, lookup, aggVars, vaultVars, mounted,
                     instance, session, screenVars, matcher, alerts, pendingInserts,
                     navigation, storeVars, monitorVars, detached, deviceConnected>>
nonMonitorVars == <<loginVars, concVars, lookup, aggVars, vaultVars, sessionVars, navigation,
                     storeVars, connVars, audit_logs, detached,
                     deviceConnected>>
nonCaptureVars == <<loginVars, concVars, lookup, aggVars, vaultVars, navigation, storeVars,
                     serviceVars, deviceConnected>>
nonScannerVars == <<loginVars, concVars, lookup, aggVars, vaultVars, navigation, storeVars,
                     serviceVars, detached>>

(***************************************************************************)
(* Bounds of the model.                                                    *)
(***************************************************************************)
MaxTime == 3
MaxLog == 4
MaxTemplateLen == 2
MaxSessions == 2
MaxPending == 2
MaxBatch == 2

(***************************************************************************)
(* SECURITY_CONFIG.  The clock ticks in units of five minutes, so the      *)
(* fifteen-minute LOCKOUT_DURATION is three ticks.                         *)
(***************************************************************************)
MAX_LOGIN_ATTEMPTS == 3
LOCKOUT_DURATION == 3

\* SQL NULL in a TIMESTAMP column; real timestamps are ticks 0, 1, ...
NULL == -1
Absent == <<>>
Some(x) == <<x>>

(***************************************************************************)
(* Credential store.                                                       *)
(***************************************************************************)
ExistingIds == {"V001", "V002", "V003"}

\* bcrypt.hash / bcrypt.compare: a salted one-way image of the password
\* that compare recomputes; distinct passwords have distinct hashes.
bcryptHash(pw) == <<"$2b$12$", pw>>
bcryptCompare(pw, hash) == bcryptHash(pw) = hash

\* Rows of the verifiers table as initDatabase leaves them (column defaults
\* failed_attempts 0, timestamps NULL, is_active TRUE).
SeedRow(id, pw) ==
  [ id |-> id, password_hash |-> bcryptHash(pw), is_active |-> TRUE,
    failed_attempts |-> 0, last_failed_attempt |-> NULL,
    last_successful_login |-> NULL ]

\* V003 is a row an administrator has deactivated (is_active = FALSE);
\* its counters are whatever they were when it was deactivated.
DeactivatedRows ==
  { [ SeedRow("V003", "password123") EXCEPT
        !.is_active = FALSE, !.failed_attempts = fa,
        !.last_failed_attempt = IF fa = 0 THEN NULL ELSE 0 ] :
      fa \in {0, MAX_LOGIN_ATTEMPTS} }

\* getEventSeverity with LOGIN_FAILED listed among the medium events.
getEventSeverity_FailedMedium(event) ==
  IF event \in {"ACCOUNT_LOCKED_ATTEMPT", "SQL_INJECTION_ATTEMPT", "UNAUTHORIZED_ACCESS"}
    THEN "CRITICAL"
  ELSE IF event \in {"PERMISSION_DENIED", "DATA_BREACH_ATTEMPT"}
    THEN "HIGH"
  ELSE IF event \in {"LOGIN_FAILED", "LOGIN_SUCCESS", "DATA_ACCESS", "VERIFICATION_COMPLETED"}
    THEN "MEDIUM"
  ELSE "LOW"

getEventSeverity(event) ==
  IF event \in {"ACCOUNT_LOCKED_ATTEMPT", "SQL_INJECTION_ATTEMPT", "UNAUTHORIZED_ACCESS"}
    THEN "CRITICAL"
  ELSE IF event \in {"LOGIN_FAILED", "PERMISSION_DENIED", "DATA_BREACH_ATTEMPT"}
    THEN "HIGH"
  ELSE IF event \in {"LOGIN_SUCCESS", "DATA_ACCESS", "VERIFICATION_COMPLETED"}
    THEN "MEDIUM"
  ELSE "LOW"

\* logSecurityEvent that writes no row for an event of severity LOW.
logSecurityEvent_DropLow(logs, event, id) ==
  IF getEventSeverity(event) = "LOW" THEN logs
  ELSE Append(logs, [event_type |-> event, id |-> id, severity |-> getEventSeverity(event)])

\* logSecurityEvent: one INSERT INTO security_logs.
logSecurityEvent(logs, event, id) ==
  Append(logs, [event_type |-> event, id |-> id, severity |-> getEventSeverity(event)])

\* IsLockedOut with the limit compared by > : a fourth failure is needed.
IsLockedOut_OffByOne(row, t) ==
  /\ row.failed_attempts > MAX_LOGIN_ATTEMPTS
  /\ row.last_failed_attempt # NULL
  /\ t < row.last_failed_attempt + LOCKOUT_DURATION

\* The lockout test of verifyLogin on the row read by the first SELECT.
\* new Date(null).getTime() is the epoch, long before any tick of the clock.
IsLockedOut(row, t) ==
  /\ row.failed_attempts >= MAX_LOGIN_ATTEMPTS
  /\ row.last_failed_attempt # NULL
  /\ t < row.last_failed_attempt + LOCKOUT_DURATION

GenericFailure ==
  [success |-> FALSE, verifier |-> Absent,
   error |-> Some("Invalid credentials"), accountLocked |-> Absent]

LockedFailure ==
  [success |-> FALSE, verifier |-> Absent,
   error |-> Some("Account temporarily locked due to multiple failed attempts"),
   accountLocked |-> Some(TRUE)]

LoginSuccess(row) ==
  [success |-> TRUE,
   verifier |-> Some([id |-> row.id, password |-> ""]),
   error |-> Absent, accountLocked |-> Absent]

\* LoginBranch with the lockout test placed before the input validation.
LoginBranch_LockoutFirst(tbl, id, password, t) ==
  IF id \in DOMAIN tbl /\ IsLockedOut(tbl[id], t) THEN "ACCOUNT_LOCKED_ATTEMPT"
  ELSE IF id = "" \/ password = "" THEN "LOGIN_INVALID_INPUT"
  ELSE IF ~(id \in DOMAIN tbl /\ tbl[id].is_active) THEN "LOGIN_INVALID_USER"
  ELSE IF ~bcryptCompare(password, tbl[id].password_hash) THEN "LOGIN_FAILED"
  ELSE "LOGIN_SUCCESS"

\* LoginBranch with the second SELECT lacking AND is_active = TRUE.
LoginBranch_NoActiveFilter(tbl, id, password, t) ==
  IF id = "" \/ password = "" THEN "LOGIN_INVALID_INPUT"
  ELSE IF id \in DOMAIN tbl /\ IsLockedOut(tbl[id], t) THEN "ACCOUNT_LOCKED_ATTEMPT"
  ELSE IF ~(id \in DOMAIN tbl) THEN "LOGIN_INVALID_USER"
  ELSE IF ~bcryptCompare(password, tbl[id].password_hash) THEN "LOGIN_FAILED"
  ELSE "LOGIN_SUCCESS"

\* The branch verifyLogin takes for (id, password) on table tbl at time t.
LoginBranch(tbl, id, password, t) ==
  IF id = "" \/ password = "" THEN "LOGIN_INVALID_INPUT"
  ELSE IF id \in DOMAIN tbl /\ IsLockedOut(tbl[id], t) THEN "ACCOUNT_LOCKED_ATTEMPT"
  ELSE IF ~(id \in DOMAIN tbl /\ tbl[id].is_active) THEN "LOGIN_INVALID_USER"
  ELSE IF ~bcryptCompare(password, tbl[id].password_hash) THEN "LOGIN_FAILED"
  ELSE "LOGIN_SUCCESS"

\* The value verifyLogin returns on that branch.
LoginOutcome(tbl, id, password, t) ==
  LET b == LoginBranch(tbl, id, password, t) IN
    IF b = "ACCOUNT_LOCKED_ATTEMPT" THEN LockedFailure
    ELSE IF b = "LOGIN_SUCCESS" THEN LoginSuccess(tbl[id])
    ELSE GenericFailure

\* LoginUpdate that also stamps last_failed_attempt on a locked attempt.
LoginUpdate_TouchOnLocked(tbl, id, password, t) ==
  LET b == LoginBranch(tbl, id, password, t) IN
    IF b = "LOGIN_FAILED"
      THEN [tbl EXCEPT ![id].failed_attempts = @ + 1,
                       ![id].last_failed_attempt = t]
    ELSE IF b = "LOGIN_SUCCESS"
      THEN [tbl EXCEPT ![id].failed_attempts = 0,
                       ![id].last_successful_login = t]
    ELSE IF b = "ACCOUNT_LOCKED_ATTEMPT"
      THEN [tbl EXCEPT ![id].last_failed_attempt = t]
    ELSE tbl

\* LoginUpdate whose mismatch UPDATE leaves last_failed_attempt alone.
LoginUpdate_NoTimestamp(tbl, id, password, t) ==
  LET b == LoginBranch(tbl, id, password, t) IN
    IF b = "LOGIN_FAILED"
      THEN [tbl EXCEPT ![id].failed_attempts = @ + 1]
    ELSE IF b = "LOGIN_SUCCESS"
      THEN [tbl EXCEPT ![id].failed_attempts = 0,
                       ![id].last_successful_login = t]
    ELSE tbl

\* LoginUpdate whose success UPDATE leaves failed_attempts alone.
LoginUpdate_NoReset(tbl, id, password, t) ==
  LET b == LoginBranch(tbl, id, password, t) IN
    IF b = "LOGIN_FAILED"
      THEN [tbl EXCEPT ![id].failed_attempts = @ + 1,
                       ![id].last_failed_attempt = t]
    ELSE IF b = "LOGIN_SUCCESS"
      THEN [tbl EXCEPT ![id].last_successful_login = t]
    ELSE tbl

\* LoginUpdate that starts the count afresh when the failure comes after
\* an expired lockout.
LoginUpdate_ExpiryResets(tbl, id, password, t) ==
  LET b == LoginBranch(tbl, id, password, t) IN
    IF b = "LOGIN_FAILED"
      THEN [tbl EXCEPT ![id].failed_attempts =
                         IF @ >= MAX_LOGIN_ATTEMPTS THEN 1 ELSE @ + 1,
                       ![id].last_failed_attempt = t]
    ELSE IF b = "LOGIN_SUCCESS"
      THEN [tbl EXCEPT ![id].failed_attempts = 0,
                       ![id].last_successful_login = t]
    ELSE tbl

\* The UPDATE verifiers statement of that branch, if any.
LoginUpdate(tbl, id, password, t) ==
  LET b == LoginBranch(tbl, id, password, t) IN
    IF b = "LOGIN_FAILED"
      THEN [tbl EXCEPT ![id].failed_attempts = @ + 1,
                       ![id].last_failed_attempt = t]
    ELSE IF b = "LOGIN_SUCCESS"
      THEN [tbl EXCEPT ![id].failed_attempts = 0,
                       ![id].last_successful_login = t]
    ELSE tbl

NoCall == [id |-> "", password |-> "", at |-> 0, branch |-> "NONE", outcome |-> GenericFailure]

LoginInit ==
  /\ now = 0
  /\ \E d \in DeactivatedRows :
       verifiers = [id \in ExistingIds |->
                      IF id = "V003" THEN d
                      ELSE SeedRow(id, IF id = "V001" THEN "password123" ELSE "password456")]
  /\ security_logs = <<>>
  /\ loginCall = NoCall

\* One call of DatabaseService.verifyLogin(id, password), start to return.
verifyLogin(id, password) ==
  /\ Len(security_logs) < MaxLog
  /\ verifiers' = LoginUpdate(verifiers, id, password, now)
  /\ security_logs' = logSecurityEvent(security_logs,
                                       LoginBranch(verifiers, id, password, now), id)
  /\ loginCall' = [id |-> id, password |-> password, at |-> now,
                   branch |-> LoginBranch(verifiers, id, password, now),
                   outcome |-> LoginOutcome(verifiers, id, password, now)]
  /\ UNCHANGED now
  /\ UNCHANGED nonLoginVars

\* Time passes.
Tick ==
  /\ now < MaxTime
  /\ now' = now + 1
  /\ UNCHANGED <<verifiers, security_logs, loginCall>>
  /\ UNCHANGED nonLoginVars

\* The calls made: right and wrong password for the seeded V001 and the
\* deactivated V003, a wrong one for V002 and for the unknown V404, and an
\* empty id or password.
LoginInputs ==
  { <<"V001", "password123">>, <<"V001", "wrongpass">>, <<"V002", "wrongpass">>,
    <<"V003", "password123">>, <<"V003", "wrongpass">>, <<"V404", "wrongpass">>,
    <<"", "password123">>, <<"V001", "">> }

LoginNext ==
  \/ \E in \in LoginInputs : verifyLogin(in[1], in[2])
  \/ Tick

(***************************************************************************)
(* verifyLogin statement by statement.  The service holds one pg Client,   *)
(* which runs one query at a time; between two awaits of a call any other  *)
(* call may run its next statement.                                        *)
(***************************************************************************)
MaxCalls == 2
Callers == 1..MaxCalls

\* failed_attempts of V001 left by earlier wrong-password logins.
PriorFailures == {0, 1, 2}

IdleCall ==
  [pc |-> "idle", id |-> "", password |-> "", user |-> Absent,
   branch |-> "NONE", events |-> 0, updates |-> 0, outcome |-> Absent]

ConcurrentInit ==
  /\ now = 0
  /\ \E d \in DeactivatedRows, fa \in PriorFailures :
       verifiers = [id \in ExistingIds |->
                      IF id = "V003" THEN d
                      ELSE IF id = "V001"
                        THEN [SeedRow(id, "password123") EXCEPT
                                !.failed_attempts = fa,
                                !.last_failed_attempt = IF fa = 0 THEN NULL ELSE 0]
                      ELSE SeedRow(id, "password456")]
  /\ verifiersAtStart = verifiers
  /\ security_logs = <<>>
  /\ loginCall = NoCall
  /\ loginCalls = [c \in Callers |-> IdleCall]

\* The UPDATE of the mismatch path computed from the row the call read
\* earlier instead of in the statement itself.
IncrementFailedAttempts_FromRead(tbl, id, user, t) ==
  [tbl EXCEPT ![id].failed_attempts = user.failed_attempts + 1,
              ![id].last_failed_attempt = t]

\* UPDATE verifiers SET failed_attempts = failed_attempts + 1,
\* last_failed_attempt = CURRENT_TIMESTAMP WHERE id = $1.
IncrementFailedAttempts(tbl, id, user, t) ==
  [tbl EXCEPT ![id].failed_attempts = @ + 1,
              ![id].last_failed_attempt = t]

\* UPDATE verifiers SET failed_attempts = 0,
\* last_successful_login = CURRENT_TIMESTAMP WHERE id = $1.
ResetFailedAttempts(tbl, id, t) ==
  [tbl EXCEPT ![id].failed_attempts = 0,
              ![id].last_successful_login = t]

\* The value a call returns after logging the event of its branch.
OutcomeOf(branch, user) ==
  IF branch = "ACCOUNT_LOCKED_ATTEMPT" THEN LockedFailure
  ELSE IF branch = "LOGIN_SUCCESS" THEN LoginSuccess(user[1])
  ELSE GenericFailure

\* Entry of verifyLogin up to its first await: the input validation.
StartCall(c, id, password) ==
  /\ loginCalls[c].pc = "idle"
  /\ \A d \in 1..(c - 1) : loginCalls[d].pc # "idle"
  /\ loginCalls' = [loginCalls EXCEPT ![c] =
       [@ EXCEPT !.id = id, !.password = password,
                 !.pc = IF id = "" \/ password = "" THEN "log" ELSE "lockoutCheck",
                 !.branch = IF id = "" \/ password = ""
                              THEN "LOGIN_INVALID_INPUT" ELSE "NONE"]]
  /\ UNCHANGED <<now, verifiers, security_logs, verifiersAtStart>>
  /\ UNCHANGED nonConcVars

\* SELECT failed_attempts, last_failed_attempt ... and the lockout test.
LockoutCheck(c) ==
  /\ loginCalls[c].pc = "lockoutCheck"
  /\ LET id == loginCalls[c].id
         locked == id \in DOMAIN verifiers /\ IsLockedOut(verifiers[id], now)
     IN loginCalls' = [loginCalls EXCEPT ![c] =
          [@ EXCEPT !.pc = IF locked THEN "log" ELSE "getUser",
                    !.branch = IF locked THEN "ACCOUNT_LOCKED_ATTEMPT" ELSE "NONE"]]
  /\ UNCHANGED <<now, verifiers, security_logs, verifiersAtStart>>
  /\ UNCHANGED nonConcVars

\* SELECT ... WHERE id = $1 AND is_active = TRUE.
GetUser(c) ==
  /\ loginCalls[c].pc = "getUser"
  /\ LET id == loginCalls[c].id
         found == id \in DOMAIN verifiers /\ verifiers[id].is_active
     IN loginCalls' = [loginCalls EXCEPT ![c] =
          [@ EXCEPT !.pc = IF found THEN "compare" ELSE "log",
                    !.user = IF found THEN Some(verifiers[id]) ELSE Absent,
                    !.branch = IF found THEN "NONE" ELSE "LOGIN_INVALID_USER"]]
  /\ UNCHANGED <<now, verifiers, security_logs, verifiersAtStart>>
  /\ UNCHANGED nonConcVars

\* await bcrypt.compare(password, user.password_hash).
Compare(c) ==
  /\ loginCalls[c].pc = "compare"
  /\ loginCalls' = [loginCalls EXCEPT ![c].pc =
       IF bcryptCompare(loginCalls[c].password, loginCalls[c].user[1].password_hash)
         THEN "updateSuccess" ELSE "updateFailed"]
  /\ UNCHANGED <<now, verifiers, security_logs, verifiersAtStart>>
  /\ UNCHANGED nonConcVars

\* The mismatch path: its UPDATE.
UpdateFailed(c) ==
  /\ loginCalls[c].pc = "updateFailed"
  /\ verifiers' = IncrementFailedAttempts(verifiers, loginCalls[c].id,
                                          loginCalls[c].user[1], now)
  /\ loginCalls' = [loginCalls EXCEPT ![c] =
       [@ EXCEPT !.pc = "log", !.branch = "LOGIN_FAILED", !.updates = @ + 1]]
  /\ UNCHANGED <<now, security_logs, verifiersAtStart>>
  /\ UNCHANGED nonConcVars

\* The success path with its UPDATE left out.
UpdateSuccess_NoReset(c) ==
  /\ loginCalls[c].pc = "updateSuccess"
  /\ loginCalls' = [loginCalls EXCEPT ![c] =
       [@ EXCEPT !.pc = "log", !.branch = "LOGIN_SUCCESS"]]
  /\ UNCHANGED <<now, verifiers, security_logs, verifiersAtStart>>
  /\ UNCHANGED nonConcVars

\* The match path: its UPDATE.
UpdateSuccess(c) ==
  /\ loginCalls[c].pc = "updateSuccess"
  /\ verifiers' = ResetFailedAttempts(verifiers, loginCalls[c].id, now)
  /\ loginCalls' = [loginCalls EXCEPT ![c] =
       [@ EXCEPT !.pc = "log", !.branch = "LOGIN_SUCCESS", !.updates = @ + 1]]
  /\ UNCHANGED <<now, security_logs, verifiersAtStart>>
  /\ UNCHANGED nonConcVars

\* await this.logSecurityEvent(...) of the branch, then the return.
LogEvent(c) ==
  /\ loginCalls[c].pc = "log"
  /\ security_logs' = logSecurityEvent(security_logs, loginCalls[c].branch,
                                       loginCalls[c].id)
  /\ loginCalls' = [loginCalls EXCEPT ![c] =
       [@ EXCEPT !.pc = "done",
                 !.events = @ + (Len(security_logs') - Len(security_logs)),
                 !.outcome = Some(OutcomeOf(loginCalls[c].branch, loginCalls[c].user))]]
  /\ UNCHANGED <<now, verifiers, verifiersAtStart>>
  /\ UNCHANGED nonConcVars

\* The calls made: right and wrong password for V001, the right password
\* for the deactivated V003, a wrong one for the unknown V404, an empty one.
ConcurrentInputs ==
  { <<"V001", "password123">>, <<"V001", "wrongpass">>, <<"V003", "password123">>,
    <<"V404", "wrongpass">>, <<"V001", "">> }

ConcurrentNext ==
  \E c \in Callers :
    \/ \E in \in ConcurrentInputs : StartCall(c, in[1], in[2])
    \/ LockoutCheck(c)
    \/ GetUser(c)
    \/ Compare(c)
    \/ UpdateFailed(c)
    \/ UpdateSuccess(c)
    \/ LogEvent(c)

(***************************************************************************)
(* Candidate lookup by roll number.  A roll number is the sequence of its  *)
(* characters.                                                             *)
(***************************************************************************)
MaxRollLen == 3
MaxRows == 2
MaxDetached == 1
MaxTimers == 4
MaxTicks == 3
RollMinLen == 6
RollMaxLen == 15

UpperCase == {"J", "E", "Z"}
LowerCase == {"j", "e", "z"}
Digits == {"0", "1", "2", "4", "9"}
WhiteSpace == {" "}

Chars(str) ==
  CASE str = "JEE2024001" -> <<"J", "E", "E", "2", "0", "2", "4", "0", "0", "1">>
    [] str = "JEE2024002" -> <<"J", "E", "E", "2", "0", "2", "4", "0", "0", "2">>
    [] str = " jee2024002 " ->
         <<" ", "j", "e", "e", "2", "0", "2", "4", "0", "0", "2", " ">>
    [] str = "ZZ999999" -> <<"Z", "Z", "9", "9", "9", "9", "9", "9">>
    [] str = "JEE01" -> <<"J", "E", "E", "0", "1">>
    [] str = "JEE001'--" -> <<"J", "E", "E", "0", "0", "1", "'", "-", "-">>
    [] str = "JEE2024001JEE2024001" ->
         <<"J", "E", "E", "2", "0", "2", "4", "0", "0", "1",
           "J", "E", "E", "2", "0", "2", "4", "0", "0", "1">>

\* String.prototype.trim
RECURSIVE TrimStart(_)
TrimStart(cs) ==
  IF cs # <<>> /\ Head(cs) \in WhiteSpace THEN TrimStart(Tail(cs)) ELSE cs

RECURSIVE TrimEnd(_)
TrimEnd(cs) ==
  IF cs # <<>> /\ cs[Len(cs)] \in WhiteSpace
    THEN TrimEnd(SubSeq(cs, 1, Len(cs) - 1)) ELSE cs

TrimChars(cs) == TrimEnd(TrimStart(cs))

\* String.prototype.toUpperCase
UpperOf(ch) ==
  IF ch = "j" THEN "J" ELSE IF ch = "e" THEN "E" ELSE IF ch = "z" THEN "Z" ELSE ch

ToUpperCase(cs) == [i \in 1..Len(cs) |-> UpperOf(cs[i])]

\* /^[A-Z0-9]{6,15}$/.test
RollPattern(cs) ==
  /\ Len(cs) >= RollMinLen
  /\ Len(cs) <= RollMaxLen
  /\ \A i \in 1..Len(cs) : cs[i] \in UpperCase \cup Digits

\* roll_number keys of the candidates table (insertSampleData).
CandidatesTable == {Chars("JEE2024001"), Chars("JEE2024002")}

\* The first getCandidateByRollNumber of the class body: the SELECT it
\* issues, the events it logs and how it ends.  dbOk: the SELECT succeeds.
getCandidateByRollNumber_Validated(rollNumber, dbOk) ==
  LET sanitizedRollNumber == ToUpperCase(TrimChars(rollNumber)) IN
    IF ~RollPattern(sanitizedRollNumber)
      THEN [kind |-> "throws", queries |-> <<>>, events |-> <<"DATA_ACCESS_ERROR">>]
    ELSE IF ~dbOk
      THEN [kind |-> "throws", queries |-> <<sanitizedRollNumber>>,
            events |-> <<"DATA_ACCESS", "DATA_ACCESS_ERROR">>]
    ELSE [kind |-> IF sanitizedRollNumber \in CandidatesTable THEN "found" ELSE "null",
          queries |-> <<sanitizedRollNumber>>, events |-> <<"DATA_ACCESS">>]

\* The second getCandidateByRollNumber of the class body.
getCandidateByRollNumber_Unvalidated(rollNumber, dbOk) ==
  LET sanitizedRollNumber == ToUpperCase(TrimChars(rollNumber)) IN
    IF ~dbOk
      THEN [kind |-> "throws", queries |-> <<sanitizedRollNumber>>,
            events |-> <<"DATA_ACCESS", "DATA_ACCESS_ERROR">>]
    ELSE [kind |-> IF sanitizedRollNumber \in CandidatesTable THEN "found" ELSE "null",
          queries |-> <<sanitizedRollNumber>>, events |-> <<"DATA_ACCESS">>]

\* The method DatabaseService.prototype has: of two members with one name
\* in a class body the later one replaces the earlier.
DatabaseService_getCandidateByRollNumber(rollNumber, dbOk) ==
  getCandidateByRollNumber_Unvalidated(rollNumber, dbOk)

RECURSIVE LogAll(_, _)
LogAll(logs, events) ==
  IF events = <<>> THEN logs
  ELSE LogAll(logSecurityEvent(logs, Head(events), ""), Tail(events))

RECURSIVE SeqsUpTo(_, _)
SeqsUpTo(S, n) ==
  IF n = 0 THEN {<<>>}
  ELSE LET shorter == SeqsUpTo(S, n - 1) IN
         shorter \cup {Append(cs, ch) : cs \in shorter, ch \in S}

\* Roll numbers handed to the lookup: every short string over a few
\* characters, and well-formed, padded, lower-case, too short, too long and
\* quote-carrying ones.
RollNumberInputs ==
  SeqsUpTo({"J", "e", "1", " ", "'"}, MaxRollLen)
    \cup {Chars("JEE2024001"), Chars(" jee2024002 "), Chars("ZZ999999"),
          Chars("JEE01"), Chars("JEE001'--"), Chars("JEE2024001JEE2024001")}

NoLookup == [pc |-> "idle", rollNumber |-> <<>>, queries |-> <<>>, kind |-> "none"]

LookupInit ==
  /\ \E r \in RollNumberInputs : lookup = [NoLookup EXCEPT !.pc = "called", !.rollNumber = r]
  /\ now = 0
  /\ verifiers = [id \in {} |-> 0]
  /\ security_logs = <<>>
  /\ loginCall = NoCall

\* One call of databaseService.getCandidateByRollNumber(rollNumber).
GetCandidate(dbOk) ==
  /\ lookup.pc = "called"
  /\ LET r == DatabaseService_getCandidateByRollNumber(lookup.rollNumber, dbOk) IN
       /\ lookup' = [lookup EXCEPT !.pc = "done", !.queries = r.queries, !.kind = r.kind]
       /\ security_logs' = LogAll(security_logs, r.events)
  /\ UNCHANGED nonLookupVars

LookupNext == \E dbOk \in BOOLEAN : GetCandidate(dbOk)

(***************************************************************************)
(* Verification steps and the final-status rule of completeVerification.   *)
(***************************************************************************)
StepNames == {"QR_SCAN", "FACE_RECOGNITION", "FINGERPRINT", "RETINA"}
Statuses == {"PENDING", "IN_PROGRESS", "COMPLETED", "FAILED"}

\* useState initial value of verificationSteps.
InitialSteps == [s \in StepNames |-> [status |-> "PENDING", confidence |-> Absent]]

\* updateVerificationStep(step, status, confidence?): the entry of that step
\* gets the status and the confidence argument (undefined when omitted).
updateVerificationStep(steps, step, status, confidence) ==
  [steps EXCEPT ![step] = [status |-> status, confidence |-> confidence]]

StepsWith(steps, status) == {s \in StepNames : steps[s].status = status}

\* FinalStatus with the last two branches in the other order: an unfinished
\* step is reported before a failed one.
FinalStatus_PartialFirst(steps) ==
  IF Cardinality(StepsWith(steps, "COMPLETED")) = Cardinality(StepNames) THEN "VERIFIED"
  ELSE IF Cardinality(StepsWith(steps, "PENDING") \cup StepsWith(steps, "IN_PROGRESS")) > 0
    THEN "PARTIAL"
  ELSE "REJECTED"

\* finalStatus as completeVerification computes it.
FinalStatus(steps) ==
  IF Cardinality(StepsWith(steps, "COMPLETED")) = Cardinality(StepNames) THEN "VERIFIED"
  ELSE IF Cardinality(StepsWith(steps, "FAILED")) > 0 THEN "REJECTED"
  ELSE "PARTIAL"

AggregatorInit ==
  /\ stepInput = InitialSteps
  /\ aggregated = "NONE"

\* The step list is brought to any status vector, one entry at a time.
SetStep(step, status) ==
  /\ stepInput' = updateVerificationStep(stepInput, step, status, Absent)
  /\ aggregated' = "NONE"
  /\ UNCHANGED nonAggVars

\* The rule is evaluated on the current step list.
Evaluate ==
  /\ aggregated' = FinalStatus(stepInput)
  /\ UNCHANGED stepInput
  /\ UNCHANGED nonAggVars

AggregatorNext ==
  \/ \E step \in StepNames, status \in Statuses : SetStep(step, status)
  \/ Evaluate

(***************************************************************************)
(* Template vault: encryptBiometricData / decryptBiometricData.            *)
(* Strings are sequences of one-character strings, buffers are sequences   *)
(* of bytes 0..255.                                                        *)
(***************************************************************************)
HexDigits == <<"0", "1", "2", "3", "4", "5", "6", "7",
               "8", "9", "a", "b", "c", "d", "e", "f">>
PlainChars == {"A", "B"}

\* utf8 encoding / decoding of the template alphabet.
Utf8Code(c) == IF c = "A" THEN 65 ELSE 66
Utf8Char(b) == IF b = 65 THEN "A" ELSE IF b = 66 THEN "B" ELSE "?"
Utf8Encode(str) == [i \in 1..Len(str) |-> Utf8Code(str[i])]
Utf8Decode(buf) == [i \in 1..Len(buf) |-> Utf8Char(buf[i])]

\* Buffer.toString('hex'): two hex digits per byte.
ToHex(buf) ==
  [i \in 1..(2 * Len(buf)) |->
     IF i % 2 = 1 THEN HexDigits[(buf[(i + 1) \div 2] \div 16) + 1]
                  ELSE HexDigits[(buf[i \div 2] % 16) + 1]]

HexValue(c) == IF \E k \in 1..16 : HexDigits[k] = c
                 THEN (CHOOSE k \in 1..16 : HexDigits[k] = c) - 1
                 ELSE -1

\* Number of leading well-formed hex pairs of str.
RECURSIVE HexPairs(_, _)
HexPairs(str, n) ==
  IF 2 * n + 2 <= Len(str) /\ HexValue(str[2 * n + 1]) >= 0 /\ HexValue(str[2 * n + 2]) >= 0
    THEN HexPairs(str, n + 1)
    ELSE n

\* Buffer.from(str, 'hex'): decodes up to the first pair that is not hex.
FromHex(str) ==
  [i \in 1..HexPairs(str, 0) |-> 16 * HexValue(str[2 * i - 1]) + HexValue(str[2 * i])]

\* AES-256-GCM runs the block cipher in counter mode: byte i of the data is
\* combined with byte i of a key stream that depends on key and iv only.
\* The combination is modelled by addition modulo 256 (invertible, as xor).
KeyStream(iv, i) == (131 + 7 * (IF Len(iv) > 0 THEN iv[1] ELSE 0) + 29 * i) % 256
CipherUpdate(iv, buf) == [i \in 1..Len(buf) |-> (buf[i] + KeyStream(iv, i)) % 256]
DecipherUpdate(iv, buf) == [i \in 1..Len(buf) |-> (buf[i] + 256 - KeyStream(iv, i)) % 256]

\* The GCM authentication tag of (iv, ciphertext).
AuthTag(iv, buf) == <<"tag", iv, buf>>

\* decipher.final() in GCM mode: throws unless setAuthTag supplied the tag
\* of exactly this iv and ciphertext.  tagSet is <<>> when setAuthTag was
\* never called.
DecipherFinalThrows(iv, buf, tagSet) == tagSet # Some(AuthTag(iv, buf))

Colon == ":"
Includes(str, c) == \E i \in 1..Len(str) : str[i] = c
IndexOf(str, c, from) ==
  IF \E i \in from..Len(str) : str[i] = c
    THEN CHOOSE i \in from..Len(str) : str[i] = c /\ \A j \in from..(i - 1) : str[j] # c
    ELSE Len(str) + 1

\* The first two pieces of str.split(':') (the destructuring drops the rest).
SplitFirst(str) == SubSeq(str, 1, IndexOf(str, Colon, 1) - 1)
SplitSecond(str) ==
  LET a == IndexOf(str, Colon, 1) IN SubSeq(str, a + 1, IndexOf(str, Colon, a + 1) - 1)

\* encryptBiometricData(data) with crypto.randomBytes giving iv.  The tag the
\* cipher computed is never read (no getAuthTag) and is not part of the
\* result.
encryptBiometricData(data, iv) ==
  ToHex(iv) \o <<Colon>> \o ToHex(CipherUpdate(iv, Utf8Encode(data)))

\* decryptBiometricData(encryptedData): the returned value.  Every throw in
\* the try block (createDecipheriv on an empty iv, final()) is caught and
\* the argument is returned.
decryptBiometricData(encryptedData) ==
  IF ~Includes(encryptedData, Colon) THEN encryptedData
  ELSE LET iv == FromHex(SplitFirst(encryptedData))
           encrypted == FromHex(SplitSecond(encryptedData))
           decrypted == Utf8Decode(DecipherUpdate(iv, encrypted))
       IN IF Len(iv) = 0 \/ DecipherFinalThrows(iv, encrypted, Absent)
            THEN encryptedData
            ELSE decrypted

Templates ==
  UNION { [1..n -> PlainChars] : n \in 0..MaxTemplateLen }

\* crypto.randomBytes(16), shortened to one byte.
RandomIvs == { <<0>>, <<171>> }

\* Characters a corrupted column may carry in place of the original one.
TamperChars == {"0", "7", "f", "z"}

NoOutcome == [kind |-> "none", value |-> <<>>]

\* What a caller of decryptBiometricData observes: the function has no
\* throwing path (its whole body is inside try / catch), it returns a string.
DecryptOutcome(encryptedData) ==
  [kind |-> "returned", value |-> decryptBiometricData(encryptedData)]

VaultInit ==
  /\ vaultPlain \in Templates
  /\ vaultStored = <<>>
  /\ vaultOut = NoOutcome
  /\ vaultTampered = FALSE

\* A template is encrypted and written to its column.
Encrypt(iv) ==
  /\ vaultStored = <<>>
  /\ vaultOut = NoOutcome
  /\ vaultStored' = encryptBiometricData(vaultPlain, iv)
  /\ UNCHANGED <<vaultPlain, vaultOut, vaultTampered>>
  /\ UNCHANGED nonVaultVars

\* One character of the stored nonce or ciphertext is altered.
Tamper(i, c) ==
  /\ ~vaultTampered
  /\ vaultOut = NoOutcome
  /\ i \in 1..Len(vaultStored)
  /\ vaultStored[i] # Colon
  /\ vaultStored[i] # c
  /\ vaultStored' = [vaultStored EXCEPT ![i] = c]
  /\ vaultTampered' = TRUE
  /\ UNCHANGED <<vaultPlain, vaultOut>>
  /\ UNCHANGED nonVaultVars

\* The column is read back through decryptBiometricData.
Decrypt ==
  /\ Len(vaultStored) > 0
  /\ vaultOut = NoOutcome
  /\ vaultOut' = DecryptOutcome(vaultStored)
  /\ UNCHANGED <<vaultPlain, vaultStored, vaultTampered>>
  /\ UNCHANGED nonVaultVars

VaultNext ==
  \/ \E iv \in RandomIvs : Encrypt(iv)
  \/ \E i \in 1..(2 + 2 * MaxTemplateLen + 1), c \in TamperChars : Tamper(i, c)
  \/ Decrypt

(***************************************************************************)
(* VerificationScreen: one verifier's verification session.                *)
(***************************************************************************)
UNDEFINED == "undefined"
CandidateRolls == {"JEE2024001", "JEE2024002"}
Candidate(roll) == [rollNumber |-> roll]

\* rollNumber.trim().toUpperCase() on the inputs of the model.
Sanitize(roll) == IF roll \in {" jee2024002 ", "jee2024002"} THEN "JEE2024002" ELSE roll
Trim(roll) ==
  IF roll = " jee2024002 " THEN "jee2024002" ELSE IF roll = " " THEN "" ELSE roll

\* getCandidateByRollNumber as the class ends up with it (its second
\* definition replaces the first): "found", "null" or "throws".  dbOk is
\* whether the SELECT succeeds; an undefined argument throws at trim().
getCandidateByRollNumber(roll, dbOk) ==
  IF roll = UNDEFINED \/ ~dbOk THEN [kind |-> "throws", candidate |-> Absent]
  ELSE IF Sanitize(roll) \in CandidateRolls
    THEN [kind |-> "found", candidate |-> Some(Candidate(Sanitize(roll)))]
  ELSE [kind |-> "null", candidate |-> Absent]

Alert(kind) == [kind |-> kind, inst |-> instance]

NoModal == ~showQRScanner /\ ~showFaceRecognition /\ ~showFingerprint /\ ~showRetina

\* The screen's own buttons can be pressed: it is displayed and neither an
\* Alert dialog nor a Modal covers it.
UIFree == mounted /\ alerts = <<>> /\ NoModal

\* renderCurrentStepActions with the completion button drawn one step early.
renderCurrentStepActions_EarlyComplete(step) ==
  IF step = "FACE_RECOGNITION" THEN "startFaceRecognition"
  ELSE IF step = "FINGERPRINT" THEN "startFingerprintScan"
  ELSE IF step = "RETINA" \/ step = "SUMMARY" THEN "completeVerification"
  ELSE "null"

\* renderCurrentStepActions: the handler of the button drawn for a step.
renderCurrentStepActions(step) ==
  IF step = "FACE_RECOGNITION" THEN "startFaceRecognition"
  ELSE IF step = "FINGERPRINT" THEN "startFingerprintScan"
  ELSE IF step = "RETINA" THEN "startRetinaScan"
  ELSE IF step = "SUMMARY" THEN "completeVerification"
  ELSE "null"

SessionInit ==
  /\ mounted = FALSE
  /\ instance = 0
  /\ session = 0
  /\ currentStep = "SEARCH"
  /\ candidate = Absent
  /\ verificationSteps = InitialSteps
  /\ showQRScanner = FALSE
  /\ showFaceRecognition = FALSE
  /\ showFingerprint = FALSE
  /\ showRetina = FALSE
  /\ matcher = "NONE"
  /\ alerts = <<>>
  /\ pendingInserts = <<>>
  /\ verification_results = <<>>
  /\ detached = <<>>
  /\ deviceConnected = FALSE

\* navigation.navigate('Verification', {candidate}): the screen is created
\* with its useState defaults and the route.params effect runs.
Mount(routeCandidate) ==
  /\ ~mounted
  /\ alerts = <<>>
  /\ session < MaxSessions
  /\ mounted' = TRUE
  /\ session' = session + 1
  /\ instance' = session + 1
  /\ candidate' = routeCandidate
  /\ currentStep' = IF routeCandidate # Absent THEN "FACE_RECOGNITION" ELSE "SEARCH"
  /\ verificationSteps' = InitialSteps
  /\ showQRScanner' = FALSE
  /\ showFaceRecognition' = FALSE
  /\ showFingerprint' = FALSE
  /\ showRetina' = FALSE
  /\ UNCHANGED <<matcher, alerts, pendingInserts, verification_results>>
  /\ UNCHANGED nonSessionVars

\* The verifier leaves the screen (back navigation); its state is dropped.
Abandon ==
  /\ UIFree
  /\ mounted' = FALSE
  /\ candidate' = Absent
  /\ currentStep' = "SEARCH"
  /\ verificationSteps' = InitialSteps
  /\ UNCHANGED <<instance, session, showQRScanner, showFaceRecognition, showFingerprint,
                 showRetina, matcher, alerts, pendingInserts, verification_results>>
  /\ UNCHANGED nonSessionVars

\* CandidateResolved without the QR_SCAN update.
CandidateResolved_NoStep(found) ==
  /\ candidate' = found
  /\ verificationSteps' = verificationSteps
  /\ currentStep' = "FACE_RECOGNITION"

\* What searchByRollNumber and onQRCodeScanned do with a found candidate.
CandidateResolved(found) ==
  /\ candidate' = found
  /\ verificationSteps' = updateVerificationStep(verificationSteps, "QR_SCAN", "COMPLETED", Absent)
  /\ currentStep' = "FACE_RECOGNITION"

searchByRollNumber(rollNumberSearch, dbOk) ==
  /\ UIFree
  /\ currentStep = "SEARCH"
  /\ LET r == getCandidateByRollNumber(Trim(rollNumberSearch), dbOk) IN
       IF Trim(rollNumberSearch) # "" /\ r.kind = "found"
         THEN /\ CandidateResolved(r.candidate)
              /\ UNCHANGED alerts
         ELSE /\ alerts' = Append(alerts, Alert("INFO"))
              /\ UNCHANGED <<candidate, verificationSteps, currentStep>>
  /\ UNCHANGED <<mounted, instance, session, showQRScanner, showFaceRecognition,
                 showFingerprint, showRetina, matcher, pendingInserts, verification_results>>
  /\ UNCHANGED nonSessionVars

handleQRScan ==
  /\ UIFree
  /\ currentStep = "SEARCH"
  /\ showQRScanner' = TRUE
  /\ UNCHANGED <<mounted, instance, session, currentStep, candidate, verificationSteps,
                 showFaceRecognition, showFingerprint, showRetina, matcher, alerts,
                 pendingInserts, verification_results>>
  /\ UNCHANGED nonSessionVars

\* The QR scanner's Cancel button.
QRCancel ==
  /\ mounted /\ showQRScanner /\ alerts = <<>>
  /\ showQRScanner' = FALSE
  /\ UNCHANGED <<mounted, instance, session, currentStep, candidate, verificationSteps,
                 showFaceRecognition, showFingerprint, showRetina, matcher, alerts,
                 pendingInserts, verification_results>>
  /\ UNCHANGED nonSessionVars

\* The roll number onQRCodeScanned looks up for a payload: qrData.rollNumber
\* of a payload that parses as JSON (undefined when it has no such field),
\* the payload itself otherwise.
QRRollNumber(payload) == IF payload.json THEN payload.rollNumber ELSE payload.text

QRPayloads ==
  { [json |-> TRUE, rollNumber |-> "JEE2024002", text |-> ""],
    [json |-> TRUE, rollNumber |-> UNDEFINED, text |-> ""],
    [json |-> FALSE, rollNumber |-> UNDEFINED, text |-> "ZZ999999"] }

\* onQRCodeScanned(data), with the outcome of its lookup and of the lookup
\* of 'JEE2024001' it falls back to when the first one throws.
onQRCodeScanned(payload, dbOk, dbOk2) ==
  /\ mounted /\ showQRScanner /\ alerts = <<>>
  /\ showQRScanner' = FALSE
  /\ LET r == getCandidateByRollNumber(QRRollNumber(payload), dbOk)
         f == getCandidateByRollNumber("JEE2024001", dbOk2)
         final == IF r.kind = "throws" THEN f ELSE r
     IN IF final.kind = "found"
          THEN /\ CandidateResolved(final.candidate)
               /\ UNCHANGED alerts
          ELSE /\ alerts' = Append(alerts, Alert("INFO"))
               /\ UNCHANGED <<candidate, verificationSteps, currentStep>>
  /\ UNCHANGED <<mounted, instance, session, showFaceRecognition, showFingerprint,
                 showRetina, matcher, pendingInserts, verification_results>>
  /\ UNCHANGED nonSessionVars

\* The body of startFaceRecognition once the permission check has resolved.
FaceRecognitionStarted(hasPermission) ==
  IF hasPermission
    THEN /\ showFaceRecognition' = TRUE
         /\ verificationSteps' =
              updateVerificationStep(verificationSteps, "FACE_RECOGNITION", "IN_PROGRESS", Absent)
         /\ alerts' = IF alerts # <<>> THEN Tail(alerts) ELSE alerts
    ELSE /\ alerts' = Append(IF alerts # <<>> THEN Tail(alerts) ELSE alerts, Alert("INFO"))
         /\ UNCHANGED <<showFaceRecognition, verificationSteps>>

\* The 'Start Face Recognition' button.
startFaceRecognition(hasPermission) ==
  /\ UIFree
  /\ renderCurrentStepActions(currentStep) = "startFaceRecognition"
  /\ FaceRecognitionStarted(hasPermission)
  /\ UNCHANGED <<mounted, instance, session, currentStep, candidate, showQRScanner,
                 showFingerprint, showRetina, matcher, pendingInserts, verification_results>>
  /\ UNCHANGED nonSessionVars

\* The Cancel button of the camera view (shown until a photo is taken).
FaceCancel ==
  /\ mounted /\ showFaceRecognition /\ alerts = <<>> /\ matcher = "NONE"
  /\ showFaceRecognition' = FALSE
  /\ UNCHANGED <<mounted, instance, session, currentStep, candidate, verificationSteps,
                 showQRScanner, showFingerprint, showRetina, matcher, alerts,
                 pendingInserts, verification_results>>
  /\ UNCHANGED nonSessionVars

\* FaceRecognition.capturePhoto: the photo is taken and the matcher called,
\* or takePhoto fails and only an error dialog is shown.
capturePhoto(ok) ==
  /\ mounted /\ showFaceRecognition /\ alerts = <<>> /\ matcher = "NONE"
  /\ IF ok THEN matcher' = "FACE_RECOGNITION" /\ UNCHANGED alerts
           ELSE alerts' = Append(alerts, Alert("INFO")) /\ UNCHANGED matcher
  /\ UNCHANGED <<mounted, instance, session, screenVars, pendingInserts, verification_results>>
  /\ UNCHANGED nonSessionVars

\* The confidences a face matcher reports in the model: the threshold
\* itself and a value above it.
FaceConfidences == {75, 90}

\* HuggingFaceService.verifyFaces: confidence = similarity * 100 and
\* isMatch = similarity >= 0.75.
HuggingFaceService_verifyFaces(confidence) ==
  [isMatch |-> confidence >= 75, confidence |-> confidence]

\* FaceRecognitionService.verifyFace and simulatedFaceRecognition:
\* isMatch = confidence > 75.
FaceRecognitionService_verifyFace(confidence) ==
  [isMatch |-> confidence > 75, confidence |-> confidence]

\* What both matchers return from their own catch blocks.
MatcherError == [isMatch |-> FALSE, confidence |-> 0]

\* The answers performFaceVerification can receive from a matcher.
MatcherAnswers ==
  {HuggingFaceService_verifyFaces(c) : c \in FaceConfidences}
    \cup {FaceRecognitionService_verifyFace(c) : c \in FaceConfidences}
    \cup {MatcherError}

\* performFaceVerification with the threshold test made inclusive.
performFaceVerification_Inclusive(isMatch, confidence, threw) ==
  IF threw THEN [success |-> FALSE, confidence |-> 0]
  ELSE [success |-> isMatch \/ confidence >= 75, confidence |-> confidence]

\* The result FaceRecognition.performFaceVerification hands over for a
\* matcher answer {isMatch, confidence}, or for a matcher that threw.
performFaceVerification(isMatch, confidence, threw) ==
  IF threw THEN [success |-> FALSE, confidence |-> 0]
  ELSE [success |-> isMatch \/ confidence > 75, confidence |-> confidence]

onFaceVerificationComplete(result) ==
  /\ mounted /\ matcher = "FACE_RECOGNITION"
  /\ matcher' = "NONE"
  /\ showFaceRecognition' = FALSE
  /\ IF result.success
       THEN /\ verificationSteps' = updateVerificationStep(verificationSteps,
                 "FACE_RECOGNITION", "COMPLETED", Some(result.confidence))
            /\ currentStep' = "FINGERPRINT"
            /\ alerts' = Append(alerts, Alert("FACE_VERIFIED"))
       ELSE /\ verificationSteps' = updateVerificationStep(verificationSteps,
                 "FACE_RECOGNITION", "FAILED", Some(result.confidence))
            /\ alerts' = Append(alerts, Alert("FACE_FAILED"))
            /\ UNCHANGED currentStep
  /\ UNCHANGED <<mounted, instance, session, candidate, showQRScanner, showFingerprint,
                 showRetina, pendingInserts, verification_results>>
  /\ UNCHANGED nonSessionVars

\* Cancel pressed in the camera view after the capture button, while
\* takePhoto is pending (isProcessing disables the capture button only).
\* The modal closes; the capturePhoto call goes on behind it: takePhoto
\* rejects and raises its error dialog, or the photo comes back and the
\* matcher is called.
FaceCancelDuringCapture(ok) ==
  /\ mounted /\ showFaceRecognition /\ alerts = <<>> /\ matcher = "NONE"
  /\ Len(detached) < MaxDetached
  /\ showFaceRecognition' = FALSE
  /\ IF ok THEN detached' = Append(detached, instance) /\ UNCHANGED alerts
           ELSE alerts' = Append(alerts, Alert("INFO")) /\ UNCHANGED detached
  /\ UNCHANGED <<mounted, instance, session, currentStep, candidate, verificationSteps,
                 showQRScanner, showFingerprint, showRetina, matcher,
                 pendingInserts, verification_results>>
  /\ UNCHANGED nonCaptureVars

\* The matcher of a capture whose camera view was cancelled answers:
\* onVerificationComplete runs on the screen that opened that view.
DetachedFaceResult(result) ==
  /\ detached # <<>>
  /\ detached' = Tail(detached)
  /\ alerts' = Append(alerts,
        [kind |-> IF result.success THEN "FACE_VERIFIED" ELSE "FACE_FAILED",
         inst |-> Head(detached)])
  /\ IF mounted /\ Head(detached) = instance
       THEN /\ showFaceRecognition' = FALSE
            /\ verificationSteps' = updateVerificationStep(verificationSteps,
                 "FACE_RECOGNITION", IF result.success THEN "COMPLETED" ELSE "FAILED",
                 Some(result.confidence))
            /\ currentStep' = IF result.success THEN "FINGERPRINT" ELSE currentStep
       ELSE UNCHANGED <<showFaceRecognition, verificationSteps, currentStep>>
  /\ UNCHANGED <<mounted, instance, session, candidate, showQRScanner, showFingerprint,
                 showRetina, matcher, pendingInserts, verification_results>>
  /\ UNCHANGED nonCaptureVars

\* An Alert button acts on the screen that raised the dialog, if it is
\* still the displayed one.
FrontAlert(kind) == alerts # <<>> /\ Head(alerts).kind = kind
FrontLive == mounted /\ Head(alerts).inst = instance

\* A dialog with no handler on its button is dismissed.
PressOk ==
  /\ FrontAlert("INFO")
  /\ alerts' = Tail(alerts)
  /\ UNCHANGED <<mounted, instance, session, screenVars, matcher, pendingInserts,
                 verification_results>>
  /\ UNCHANGED nonSessionVars

\* 'Continue' of the face dialog: setCurrentStep('FINGERPRINT').
PressFaceContinue ==
  /\ FrontAlert("FACE_VERIFIED")
  /\ alerts' = Tail(alerts)
  /\ currentStep' = IF FrontLive THEN "FINGERPRINT" ELSE currentStep
  /\ UNCHANGED <<mounted, instance, session, candidate, verificationSteps, showQRScanner,
                 showFaceRecognition, showFingerprint, showRetina, matcher, pendingInserts,
                 verification_results>>
  /\ UNCHANGED nonSessionVars

\* 'Retry' of the failed-face dialog: startFaceRecognition.
PressFaceRetry(hasPermission) ==
  /\ FrontAlert("FACE_FAILED")
  /\ IF FrontLive
       THEN FaceRecognitionStarted(hasPermission)
       ELSE alerts' = Tail(alerts) /\ UNCHANGED <<showFaceRecognition, verificationSteps>>
  /\ UNCHANGED <<mounted, instance, session, currentStep, candidate, showQRScanner,
                 showFingerprint, showRetina, matcher, pendingInserts, verification_results>>
  /\ UNCHANGED nonSessionVars

startFingerprintScan ==
  /\ UIFree
  /\ renderCurrentStepActions(currentStep) = "startFingerprintScan"
  /\ showFingerprint' = TRUE
  /\ verificationSteps' =
       updateVerificationStep(verificationSteps, "FINGERPRINT", "IN_PROGRESS", Absent)
  /\ UNCHANGED <<mounted, instance, session, currentStep, candidate, showQRScanner,
                 showFaceRecognition, showRetina, matcher, alerts, pendingInserts,
                 verification_results>>
  /\ UNCHANGED nonSessionVars

startRetinaScan ==
  /\ UIFree
  /\ renderCurrentStepActions(currentStep) = "startRetinaScan"
  /\ showRetina' = TRUE
  /\ verificationSteps' =
       updateVerificationStep(verificationSteps, "RETINA", "IN_PROGRESS", Absent)
  /\ UNCHANGED <<mounted, instance, session, currentStep, candidate, showQRScanner,
                 showFaceRecognition, showFingerprint, matcher, alerts, pendingInserts,
                 verification_results>>
  /\ UNCHANGED nonSessionVars

\* The Cancel button of BiometricScanner (disabled while scanning).
ScannerCancel(type) ==
  /\ mounted /\ alerts = <<>> /\ matcher = "NONE"
  /\ \/ type = "FINGERPRINT" /\ showFingerprint
        /\ showFingerprint' = FALSE /\ UNCHANGED showRetina
     \/ type = "RETINA" /\ showRetina
        /\ showRetina' = FALSE /\ UNCHANGED showFingerprint
  /\ UNCHANGED <<mounted, instance, session, currentStep, candidate, verificationSteps,
                 showQRScanner, showFaceRecognition, matcher, alerts, pendingInserts,
                 verification_results>>
  /\ UNCHANGED nonSessionVars

\* BiometricScanner.startScan with the device connected (the button is
\* disabled otherwise): the scan and the matcher call begin.
startScan(type) ==
  /\ mounted /\ alerts = <<>> /\ matcher = "NONE"
  /\ \/ type = "FINGERPRINT" /\ showFingerprint
     \/ type = "RETINA" /\ showRetina
  /\ matcher' = type
  /\ UNCHANGED <<mounted, instance, session, screenVars, alerts, pendingInserts,
                 verification_results>>
  /\ UNCHANGED nonSessionVars

ScanConfidence == 85

onFingerprintComplete(result) ==
  /\ mounted /\ matcher = "FINGERPRINT"
  /\ matcher' = "NONE"
  /\ showFingerprint' = FALSE
  /\ IF result.success
       THEN /\ verificationSteps' = updateVerificationStep(verificationSteps,
                 "FINGERPRINT", "COMPLETED", result.confidence)
            /\ alerts' = Append(alerts, Alert("FINGERPRINT_VERIFIED"))
       ELSE /\ verificationSteps' = updateVerificationStep(verificationSteps,
                 "FINGERPRINT", "FAILED", Absent)
            /\ alerts' = Append(alerts, Alert("INFO"))
  /\ UNCHANGED <<mounted, instance, session, currentStep, candidate, showQRScanner,
                 showFaceRecognition, showRetina, pendingInserts, verification_results>>
  /\ UNCHANGED nonSessionVars

onRetinaComplete(result) ==
  /\ mounted /\ matcher = "RETINA"
  /\ matcher' = "NONE"
  /\ showRetina' = FALSE
  /\ IF result.success
       THEN /\ verificationSteps' = updateVerificationStep(verificationSteps,
                 "RETINA", "COMPLETED", result.confidence)
            /\ alerts' = Append(alerts, Alert("RETINA_VERIFIED"))
       ELSE /\ verificationSteps' = updateVerificationStep(verificationSteps,
                 "RETINA", "FAILED", Absent)
            /\ alerts' = Append(alerts, Alert("INFO"))
  /\ UNCHANGED <<mounted, instance, session, currentStep, candidate, showQRScanner,
                 showFaceRecognition, showFingerprint, pendingInserts, verification_results>>
  /\ UNCHANGED nonSessionVars

ScanResults ==
  { [success |-> TRUE, confidence |-> Some(ScanConfidence)],
    [success |-> FALSE, confidence |-> Absent] }

\* 'Continue' of the fingerprint dialog: setCurrentStep('RETINA').
PressFingerprintContinue ==
  /\ FrontAlert("FINGERPRINT_VERIFIED")
  /\ alerts' = Tail(alerts)
  /\ currentStep' = IF FrontLive THEN "RETINA" ELSE currentStep
  /\ UNCHANGED <<mounted, instance, session, candidate, verificationSteps, showQRScanner,
                 showFaceRecognition, showFingerprint, showRetina, matcher, pendingInserts,
                 verification_results>>
  /\ UNCHANGED nonSessionVars

\* 'Finish' of the retina dialog: setCurrentStep('SUMMARY').
PressRetinaFinish ==
  /\ FrontAlert("RETINA_VERIFIED")
  /\ alerts' = Tail(alerts)
  /\ currentStep' = IF FrontLive THEN "SUMMARY" ELSE currentStep
  /\ UNCHANGED <<mounted, instance, session, candidate, verificationSteps, showQRScanner,
                 showFaceRecognition, showFingerprint, showRetina, matcher, pendingInserts,
                 verification_results>>
  /\ UNCHANGED nonSessionVars

StepCompleted(steps, step) == steps[step].status = "COMPLETED"

\* VerificationResult with qrScanned set for every resolved candidate.
VerificationResult_QRAlways(cand, steps, sess) ==
  [ session |-> sess,
    rollNumber |-> cand[1].rollNumber,
    verifierId |-> "V001",
    qrScanned |-> TRUE,
    faceVerified |-> StepCompleted(steps, "FACE_RECOGNITION"),
    faceConfidence |-> steps["FACE_RECOGNITION"].confidence,
    fingerprintVerified |-> StepCompleted(steps, "FINGERPRINT"),
    retinaVerified |-> StepCompleted(steps, "RETINA"),
    finalStatus |-> FinalStatus(steps) ]

\* The verificationResult object completeVerification builds.  session is
\* not a column: it records which session issued the row.
VerificationResult(cand, steps, sess) ==
  [ session |-> sess,
    rollNumber |-> cand[1].rollNumber,
    verifierId |-> "V001",
    qrScanned |-> StepCompleted(steps, "QR_SCAN"),
    faceVerified |-> StepCompleted(steps, "FACE_RECOGNITION"),
    faceConfidence |-> steps["FACE_RECOGNITION"].confidence,
    fingerprintVerified |-> StepCompleted(steps, "FINGERPRINT"),
    retinaVerified |-> StepCompleted(steps, "RETINA"),
    finalStatus |-> FinalStatus(steps) ]

\* The 'Complete Verification' button: completeVerification up to its
\* await of insertVerificationResult, whose INSERT is now on its way.
completeVerification ==
  /\ UIFree
  /\ renderCurrentStepActions(currentStep) = "completeVerification"
  /\ candidate # Absent
  /\ Len(pendingInserts) < MaxPending
  /\ pendingInserts' = Append(pendingInserts,
        [row |-> VerificationResult(candidate, verificationSteps, session),
         inst |-> instance])
  /\ UNCHANGED <<mounted, instance, session, screenVars, matcher, alerts, verification_results>>
  /\ UNCHANGED nonSessionVars

\* insertVerificationResult resolves (the row is stored) or rejects;
\* completeVerification resumes and raises its dialog.
InsertResolves(ok) ==
  /\ pendingInserts # <<>>
  /\ pendingInserts' = Tail(pendingInserts)
  /\ verification_results' =
       IF ok THEN Append(verification_results, Head(pendingInserts).row)
             ELSE verification_results
  /\ alerts' = Append(alerts,
       [kind |-> IF ok THEN "VERIFICATION_COMPLETE" ELSE "INFO",
        inst |-> Head(pendingInserts).inst])
  /\ UNCHANGED <<mounted, instance, session, screenVars, matcher>>
  /\ UNCHANGED nonSessionVars

\* 'New Verification' of the completion dialog.
PressNewVerification ==
  /\ FrontAlert("VERIFICATION_COMPLETE")
  /\ alerts' = Tail(alerts)
  /\ IF FrontLive
       THEN /\ session < MaxSessions
            /\ session' = session + 1
            /\ candidate' = Absent
            /\ currentStep' = "SEARCH"
            /\ verificationSteps' =
                 [s \in StepNames |-> [verificationSteps[s] EXCEPT !.status = "PENDING"]]
       ELSE UNCHANGED <<session, candidate, currentStep, verificationSteps>>
  /\ UNCHANGED <<mounted, instance, showQRScanner, showFaceRecognition, showFingerprint,
                 showRetina, matcher, pendingInserts, verification_results>>
  /\ UNCHANGED nonSessionVars

\* The screen is removed from the stack; callbacks of a removed screen
\* change no state.
Unmounted ==
  /\ mounted' = FALSE
  /\ candidate' = Absent
  /\ currentStep' = "SEARCH"
  /\ verificationSteps' = InitialSteps
  /\ showQRScanner' = FALSE
  /\ showFaceRecognition' = FALSE
  /\ showFingerprint' = FALSE
  /\ showRetina' = FALSE
  /\ matcher' = "NONE"

\* 'Back to Dashboard' of the completion dialog: navigation.goBack().
PressBackToDashboard ==
  /\ FrontAlert("VERIFICATION_COMPLETE")
  /\ alerts' = Tail(alerts)
  /\ IF FrontLive THEN Unmounted ELSE UNCHANGED <<mounted, screenVars, matcher>>
  /\ UNCHANGED <<instance, session, pendingInserts, verification_results>>
  /\ UNCHANGED nonSessionVars

RouteCandidates == {Absent, Some(Candidate("JEE2024001"))}
RollInputs == {"JEE2024001", " jee2024002 ", "ZZ999999", ""}

SessionNext ==
  \/ \E c \in RouteCandidates : Mount(c)
  \/ Abandon
  \/ \E r \in RollInputs, dbOk \in BOOLEAN : searchByRollNumber(r, dbOk)
  \/ handleQRScan
  \/ QRCancel
  \/ \E p \in QRPayloads, dbOk \in BOOLEAN, dbOk2 \in BOOLEAN : onQRCodeScanned(p, dbOk, dbOk2)
  \/ \E hasPermission \in BOOLEAN : startFaceRecognition(hasPermission)
  \/ FaceCancel
  \/ \E ok \in BOOLEAN : capturePhoto(ok)
  \/ \E answer \in MatcherAnswers, threw \in BOOLEAN :
       onFaceVerificationComplete(
         performFaceVerification(answer.isMatch, answer.confidence, threw))
  \/ PressOk
  \/ PressFaceContinue
  \/ \E hasPermission \in BOOLEAN : PressFaceRetry(hasPermission)
  \/ startFingerprintScan
  \/ startRetinaScan
  \/ \E type \in {"FINGERPRINT", "RETINA"} : ScannerCancel(type)
  \/ \E type \in {"FINGERPRINT", "RETINA"} : startScan(type)
  \/ \E result \in ScanResults : onFingerprintComplete(result)
  \/ \E result \in ScanResults : onRetinaComplete(result)
  \/ PressFingerprintContinue
  \/ PressRetinaFinish
  \/ completeVerification
  \/ \E ok \in BOOLEAN : InsertResolves(ok)
  \/ PressNewVerification
  \/ PressBackToDashboard

\* BiometricScanner.checkDeviceStatus, run when the scanner view opens and
\* by its 'Check Device' button (disabled while scanning): deviceStatus
\* starts as not connected and takes the answer of the device check.
checkDeviceStatus(type, connected) ==
  /\ mounted /\ alerts = <<>> /\ matcher = "NONE"
  /\ \/ type = "FINGERPRINT" /\ showFingerprint
     \/ type = "RETINA" /\ showRetina
  /\ deviceConnected' = connected
  /\ UNCHANGED sessionVars
  /\ UNCHANGED nonScannerVars

\* The steps of SessionNext, with the scan button of BiometricScanner
\* enabled only while deviceStatus.connected.
ScannerNext ==
  \/ \E c \in RouteCandidates : Mount(c)
  \/ Abandon
  \/ \E r \in RollInputs, dbOk \in BOOLEAN : searchByRollNumber(r, dbOk)
  \/ handleQRScan
  \/ QRCancel
  \/ \E p \in QRPayloads, dbOk \in BOOLEAN, dbOk2 \in BOOLEAN : onQRCodeScanned(p, dbOk, dbOk2)
  \/ \E hasPermission \in BOOLEAN : startFaceRecognition(hasPermission)
  \/ FaceCancel
  \/ \E ok \in BOOLEAN : capturePhoto(ok)
  \/ \E answer \in MatcherAnswers, threw \in BOOLEAN :
       onFaceVerificationComplete(
         performFaceVerification(answer.isMatch, answer.confidence, threw))
  \/ PressOk
  \/ PressFaceContinue
  \/ \E hasPermission \in BOOLEAN : PressFaceRetry(hasPermission)
  \/ startFingerprintScan
  \/ startRetinaScan
  \/ \E type \in {"FINGERPRINT", "RETINA"} : ScannerCancel(type)
  \/ \E type \in {"FINGERPRINT", "RETINA"}, connected \in BOOLEAN :
       checkDeviceStatus(type, connected)
  \/ \E type \in {"FINGERPRINT", "RETINA"} : deviceConnected /\ startScan(type)
  \/ \E result \in ScanResults : onFingerprintComplete(result)
  \/ \E result \in ScanResults : onRetinaComplete(result)
  \/ PressFingerprintContinue
  \/ PressRetinaFinish
  \/ completeVerification
  \/ \E ok \in BOOLEAN : InsertResolves(ok)
  \/ PressNewVerification
  \/ PressBackToDashboard

\* SessionNext together with the captures that go on behind a cancelled
\* camera view.
CaptureNext ==
  \/ SessionNext
  \/ \E ok \in BOOLEAN : FaceCancelDuringCapture(ok)
  \/ \E answer \in MatcherAnswers, threw \in BOOLEAN :
       DetachedFaceResult(
         performFaceVerification(answer.isMatch, answer.confidence, threw))

(***************************************************************************)
(* A verifier's shift at the device: LoginScreen, AdminScreen and the      *)
(* verification sessions started from it.                                  *)
(***************************************************************************)
NoDialog == [kind |-> "NONE", verifier |-> Absent]
AtLogin == [route |-> "Login", dialog |-> NoDialog, verifier |-> Absent]

\* The verifiers rows as LoginScreen.seedInitialData leaves them
\* (insertVerifier overwrites the assignment columns on conflict).
VerifierAssignment(id) ==
  IF id = "V001"
    THEN [date |-> "2024-01-15", shift |-> "Morning", centre |-> "Centre A"]
    ELSE [date |-> "2024-01-15", shift |-> "Afternoon", centre |-> "Centre B"]

\* exam_date, shift and centre of the seeded candidates rows.
CandidateExam(roll) ==
  [date |-> "2025-07-21", shift |-> "S1", centre |-> "Delhi Centre 1"]

\* getCandidatesByVerifier: the candidates whose exam_date, shift and
\* centre equal the verifier's assignment.
getCandidatesByVerifier(verifierId) ==
  {roll \in CandidateRolls : CandidateExam(roll) = VerifierAssignment(verifierId)}

\* LoginScreen.handleLogin up to its dialog.  The value verifyLogin
\* resolves to is an object, so the test "if (verifier)" passes for every
\* outcome and the 'Login Successful' dialog captures that object.
handleLogin(id, password, connected) ==
  /\ ~mounted
  /\ navigation.route = "Login"
  /\ navigation.dialog = NoDialog
  /\ IF id = "" \/ password = "" \/ ~connected
       THEN /\ navigation' = [navigation EXCEPT !.dialog = [kind |-> "ERROR", verifier |-> Absent]]
            /\ UNCHANGED <<verifiers, security_logs, loginCall>>
       ELSE /\ Len(security_logs) < MaxLog
            /\ verifiers' = LoginUpdate(verifiers, id, password, now)
            /\ security_logs' = logSecurityEvent(security_logs,
                                   LoginBranch(verifiers, id, password, now), id)
            /\ loginCall' = [id |-> id, password |-> password, at |-> now,
                             branch |-> LoginBranch(verifiers, id, password, now),
                             outcome |-> LoginOutcome(verifiers, id, password, now)]
            /\ navigation' = [navigation EXCEPT !.dialog =
                 [kind |-> "LOGIN_SUCCESSFUL",
                  verifier |-> Some(LoginOutcome(verifiers, id, password, now))]]
  /\ UNCHANGED now
  /\ UNCHANGED nonShiftVars

\* The button of an error dialog of LoginScreen.
PressLoginOk ==
  /\ navigation.dialog.kind = "ERROR"
  /\ navigation' = [navigation EXCEPT !.dialog = NoDialog]
  /\ UNCHANGED loginVars
  /\ UNCHANGED nonShiftVars

\* 'Continue' of the 'Login Successful' dialog:
\* navigation.replace('Admin', { verifier }).
PressLoginContinue ==
  /\ navigation.dialog.kind = "LOGIN_SUCCESSFUL"
  /\ navigation' = [route |-> "Admin", dialog |-> NoDialog,
                    verifier |-> navigation.dialog.verifier]
  /\ UNCHANGED loginVars
  /\ UNCHANGED nonShiftVars

\* AdminScreen.handleStartVerification:
\* navigation.navigate('Verification', { candidate: undefined }).
handleStartVerification ==
  /\ navigation.route = "Admin"
  /\ Mount(Absent)

\* 'Logout' of AdminScreen.handleLogout's dialog: navigation.replace('Login').
handleLogout ==
  /\ ~mounted
  /\ alerts = <<>>
  /\ navigation.route = "Admin"
  /\ navigation' = AtLogin
  /\ UNCHANGED loginVars
  /\ UNCHANGED nonShiftVars

\* The id of the verifier whose login opened the Admin screen, if the
\* login succeeded.
LoggedInVerifier ==
  IF navigation.verifier # Absent /\ navigation.verifier[1].success
    THEN Some(navigation.verifier[1].verifier[1].id)
    ELSE Absent

ShiftLogins ==
  { <<"V001", "password123">>, <<"V002", "password456">>, <<"V002", "wrongpass">>,
    <<"", "password123">> }

ShiftInit == navigation = AtLogin

\* The shift with sessions in which every lookup and every biometric step
\* succeeds.
ShiftNext ==
  \/ \E in \in ShiftLogins, connected \in BOOLEAN : handleLogin(in[1], in[2], connected)
  \/ PressLoginOk
  \/ PressLoginContinue
  \/ handleStartVerification
  \/ handleLogout
  \/ \E r \in RollInputs : searchByRollNumber(r, TRUE)
  \/ PressOk
  \/ startFaceRecognition(TRUE)
  \/ capturePhoto(TRUE)
  \/ onFaceVerificationComplete(performFaceVerification(TRUE, 90, FALSE))
  \/ PressFaceContinue
  \/ startFingerprintScan
  \/ startRetinaScan
  \/ \E type \in {"FINGERPRINT", "RETINA"} : startScan(type)
  \/ onFingerprintComplete([success |-> TRUE, confidence |-> Some(ScanConfidence)])
  \/ onRetinaComplete([success |-> TRUE, confidence |-> Some(ScanConfidence)])
  \/ PressFingerprintContinue
  \/ PressRetinaFinish
  \/ completeVerification
  \/ InsertResolves(TRUE)
  \/ PressNewVerification
  \/ PressBackToDashboard

(***************************************************************************)
(* The candidates table and its writers.  A row keeps the columns the      *)
(* writers treat differently: roll_number, name, exam_date and one         *)
(* template column.  An empty template is SQL NULL ("|| null").            *)
(***************************************************************************)
ValidDates == {"2024-01-15", "2025-07-21"}

\* The candidates handed to the writers: a new name for the seeded roll
\* number with and without a template, a new roll number, and a row whose
\* examDate is empty.
CandidateInputs ==
  { [rollNumber |-> "JEE2024001", name |-> "Amit Kumar", examDate |-> "2024-01-15",
     fingerprint1 |-> <<"A">>],
    [rollNumber |-> "JEE2024001", name |-> "Rahul Sharma", examDate |-> "2024-01-15",
     fingerprint1 |-> <<>>],
    [rollNumber |-> "JEE2024004", name |-> "Neha Singh", examDate |-> "2024-01-15",
     fingerprint1 |-> <<"B">>],
    [rollNumber |-> "JEE2024004", name |-> "Neha Singh", examDate |-> "",
     fingerprint1 |-> <<>>] }

\* The statement is rejected by the table: exam_date DATE does not accept
\* the value.
RowRejected(c) == c.examDate \notin ValidDates

\* The row insertSampleData writes for JEE2024001.
SeedCandidate(iv) ==
  [rollNumber |-> "JEE2024001", name |-> "Rahul Sharma", examDate |-> "2025-07-21",
   fingerprint1 |-> encryptBiometricData(<<"A">>, iv)]

\* The rows of SampleDataService.initializeSampleCandidates.
SampleCandidates ==
  << [rollNumber |-> "JEE2024001", name |-> "Amit Kumar", examDate |-> "2024-01-15",
      fingerprint1 |-> <<"A">>],
     [rollNumber |-> "JEE2024004", name |-> "Neha Singh", examDate |-> "2024-01-15",
      fingerprint1 |-> <<"B">>] >>

HasRoll(table, roll) == \E k \in 1..Len(table) : table[k].rollNumber = roll

\* INSERT INTO candidates ... ON CONFLICT (roll_number) DO UPDATE SET name,
\* exam_date, ... : the template columns are not in the SET list.
InsertOnConflictUpdate(table, c) ==
  IF HasRoll(table, c.rollNumber)
    THEN [k \in 1..Len(table) |->
            IF table[k].rollNumber = c.rollNumber
              THEN [table[k] EXCEPT !.name = c.name, !.examDate = c.examDate]
              ELSE table[k]]
    ELSE Append(table, c)

NoStoreCall == [op |-> "none", input |-> <<>>, returned |-> TRUE, success |-> 0, failed |-> 0]

\* initDatabase has run: insertSampleData wrote its row, or failed and only
\* logged the error.
StoreInit ==
  /\ candidates \in {<<>>} \cup {<<SeedCandidate(iv)>> : iv \in RandomIvs}
  /\ storeCall = NoStoreCall

\* DatabaseService.insertCandidate(candidate): returns true, or throws when
\* the statement is rejected.
insertCandidate(c) ==
  /\ candidates' = IF RowRejected(c) THEN candidates ELSE InsertOnConflictUpdate(candidates, c)
  /\ storeCall' = [op |-> "insertCandidate", input |-> <<c>>, returned |-> ~RowRejected(c),
                   success |-> IF RowRejected(c) THEN 0 ELSE 1,
                   failed |-> IF RowRejected(c) THEN 1 ELSE 0]
  /\ UNCHANGED nonStoreVars

\* The loop of bulkInsertCandidates from row i on, inside the transaction
\* opened by BEGIN.  Once a statement has failed PostgreSQL rejects every
\* further statement of the transaction.
RECURSIVE BulkLoop(_, _, _)
BulkLoop(list, i, acc) ==
  IF i > Len(list) THEN acc
  ELSE IF acc.aborted \/ RowRejected(list[i])
    THEN BulkLoop(list, i + 1, [acc EXCEPT !.failed = @ + 1, !.aborted = TRUE])
  ELSE BulkLoop(list, i + 1,
         [acc EXCEPT !.table = InsertOnConflictUpdate(@, list[i]), !.success = @ + 1])

\* DatabaseService.bulkInsertCandidates(candidates): BEGIN, the loop, COMMIT.
\* COMMIT of a transaction in which a statement failed rolls it back.
bulkInsertCandidates(list) ==
  LET done == BulkLoop(list, 1, [table |-> candidates, success |-> 0, failed |-> 0,
                                 aborted |-> FALSE])
  IN /\ candidates' = IF done.aborted THEN candidates ELSE done.table
     /\ storeCall' = [op |-> "bulkInsertCandidates", input |-> list, returned |-> TRUE,
                      success |-> done.success, failed |-> done.failed]
     /\ UNCHANGED nonStoreVars

\* SampleDataService.initializeIfNeeded: when JEE2024001 is not found, or
\* its lookup fails, every sample row goes through insertCandidate.
initializeIfNeeded(lookupOk) ==
  /\ IF lookupOk /\ HasRoll(candidates, "JEE2024001")
       THEN /\ UNCHANGED candidates
            /\ storeCall' = [op |-> "initializeIfNeeded", input |-> <<>>, returned |-> TRUE,
                             success |-> 0, failed |-> 0]
       ELSE /\ candidates' = InsertOnConflictUpdate(
                               InsertOnConflictUpdate(candidates, SampleCandidates[1]),
                               SampleCandidates[2])
            /\ storeCall' = [op |-> "initializeIfNeeded", input |-> SampleCandidates,
                             returned |-> TRUE, success |-> Len(SampleCandidates),
                             failed |-> 0]
  /\ UNCHANGED nonStoreVars

Batches == UNION { [1..n -> CandidateInputs] : n \in 0..MaxBatch }

\* Rows of a parsed CSV file (Papa.parse with header: true), untrimmed: a
\* complete row, a row with an empty name, a row whose name is blank, and
\* a row whose examDate is no date.
CsvRows ==
  { [rollNumber |-> "JEE2024004", name |-> "Neha Singh", examDate |-> "2024-01-15"],
    [rollNumber |-> "JEE2024004", name |-> "", examDate |-> "2024-01-15"],
    [rollNumber |-> "JEE2024001", name |-> " ", examDate |-> "2024-01-15"],
    [rollNumber |-> "JEE2024001", name |-> "Amit Kumar", examDate |-> "n/a"] }

CsvFiles == UNION { [1..n -> CsvRows] : n \in 0..MaxBatch }

\* requiredFields.filter(field => !row[field]): the test is made on the
\* untrimmed value.
MissingFields(row) ==
  {f \in {"rollNumber", "name", "examDate"} : row[f] = ""}

\* The Candidate built from a row that passed the test.
CsvCandidate(row) ==
  [rollNumber |-> Trim(row.rollNumber), name |-> Trim(row.name),
   examDate |-> Trim(row.examDate), fingerprint1 |-> <<>>]

\* The insertCandidate calls of processCSVData from row i on, in the order
\* they are issued; a call that throws counts as not saved.
RECURSIVE SaveAll(_, _, _)
SaveAll(rows, i, acc) ==
  IF i > Len(rows) THEN acc
  ELSE IF MissingFields(rows[i]) # {}
    THEN SaveAll(rows, i + 1, [acc EXCEPT !.errors = @ + 1])
  ELSE IF RowRejected(CsvCandidate(rows[i]))
    THEN SaveAll(rows, i + 1, acc)
  ELSE SaveAll(rows, i + 1,
         [acc EXCEPT !.table = InsertOnConflictUpdate(@, CsvCandidate(rows[i])),
                     !.imported = @ + 1])

\* CSVImportScreen.processCSVData(csvData): nothing is saved when the
\* parser reported errors.
processCSVData(rows, parseErrors) ==
  LET done == IF parseErrors THEN [table |-> candidates, imported |-> 0, errors |-> 1]
              ELSE SaveAll(rows, 1, [table |-> candidates, imported |-> 0, errors |-> 0])
  IN /\ candidates' = done.table
     /\ storeCall' = [op |-> "processCSVData", input |-> <<>>,
                      returned |-> done.imported > 0,
                      success |-> done.imported, failed |-> done.errors]
     /\ UNCHANGED nonStoreVars

StoreNext ==
  \/ \E c \in CandidateInputs : insertCandidate(c)
  \/ \E list \in Batches : bulkInsertCandidates(list)
  \/ \E lookupOk \in BOOLEAN : initializeIfNeeded(lookupOk)
  \/ \E rows \in CsvFiles, parseErrors \in BOOLEAN : processCSVData(rows, parseErrors)

(***************************************************************************)
(* DatabaseService connection state and its insert-only tables             *)
(* (DatabaseService.ts 16-51, 469-479, 540-569, 796-837).                  *)
(***************************************************************************)
NoDbCall == [op |-> "NONE", error |-> "NONE"]

\* The state the constructor leaves: a pg Client that never connected.
DatabaseInit ==
  /\ client = Some("Client")
  /\ connection = "NEW"
  /\ isConnected = FALSE
  /\ dbCall = NoDbCall
  /\ audit_logs = <<>>

\* `!this.client || !this.isConnected`, the test every data operation opens with.
NotConnected == client = Absent \/ ~isConnected

\* client.connect() resolves only on a client that never connected before
\* and whose server answers; pg rejects a second connect() of one Client.
ConnectResolves(connectOk) == connection = "NEW" /\ connectOk

\* initDatabase: connect, then createTables / createIndexes /
\* insertSampleData (setupOk: the CREATE TABLE statements went through).
\* Every throw lands in the catch, which clears isConnected and rethrows.
initDatabase(connectOk, setupOk) ==
  /\ connection' =
       IF client = Absent THEN connection
       ELSE IF ConnectResolves(connectOk) THEN "OPEN"
       ELSE IF connection = "NEW" THEN "FAILED"
       ELSE connection
  /\ isConnected' = (client # Absent /\ ConnectResolves(connectOk) /\ setupOk)
  /\ dbCall' = [op |-> "initDatabase",
                error |-> IF client # Absent /\ ConnectResolves(connectOk) /\ setupOk
                            THEN "NONE" ELSE "CONNECTION_FAILED"]
  /\ UNCHANGED <<client, audit_logs, security_logs, verification_results>>
  /\ UNCHANGED nonDatabaseVars

\* closeDatabase: client.end() only when marked connected; a rejected end()
\* is caught and leaves the fields as they were.
closeDatabase(endOk) ==
  /\ IF client # Absent /\ isConnected /\ endOk
       THEN client' = Absent /\ isConnected' = FALSE /\ connection' = "ENDED"
       ELSE UNCHANGED <<client, isConnected, connection>>
  /\ dbCall' = [op |-> "closeDatabase", error |-> "NONE"]
  /\ UNCHANGED <<audit_logs, security_logs, verification_results>>
  /\ UNCHANGED nonDatabaseVars

\* A query reaches the server only over an open connection.
QueryRuns(queryOk) == connection = "OPEN" /\ queryOk

\* Rows handed to insertVerificationResult.
ResultRows ==
  { [ session |-> 1, rollNumber |-> "JEE2024001", verifierId |-> "V001",
      qrScanned |-> TRUE, faceVerified |-> TRUE, faceConfidence |-> Some(90),
      fingerprintVerified |-> TRUE, retinaVerified |-> rv,
      finalStatus |-> IF rv THEN "VERIFIED" ELSE "PARTIAL" ] : rv \in BOOLEAN }

\* insertVerificationResult: throws 'Database not connected' or runs one INSERT.
insertVerificationResult(result, queryOk) ==
  /\ Len(verification_results) < MaxRows
  /\ verification_results' =
       IF ~NotConnected /\ QueryRuns(queryOk)
         THEN Append(verification_results, result) ELSE verification_results
  /\ dbCall' = [op |-> "insertVerificationResult",
                error |-> IF NotConnected THEN "NOT_CONNECTED"
                          ELSE IF QueryRuns(queryOk) THEN "NONE" ELSE "QUERY_FAILED"]
  /\ UNCHANGED <<client, connection, isConnected, audit_logs, security_logs>>
  /\ UNCHANGED nonDatabaseVars

\* details of the LOGOUT entries AdminScreen.handleLogout writes: the time
\* of the logout.
LogoutTimes == {1, 2}

\* logAction that keeps one row per verifier, rewriting the row it has.
logAction_Rewrite(verifierId, action, details, queryOk) ==
  /\ Len(audit_logs) < MaxRows
  /\ audit_logs' =
       IF ~NotConnected /\ QueryRuns(queryOk)
         THEN Append(SelectSeq(audit_logs, LAMBDA r : r.verifier_id # verifierId),
                     [verifier_id |-> verifierId, action |-> action, details |-> details])
         ELSE audit_logs
  /\ dbCall' = [op |-> "logAction",
                error |-> IF NotConnected THEN "NOT_CONNECTED"
                          ELSE IF QueryRuns(queryOk) THEN "NONE" ELSE "QUERY_FAILED"]
  /\ UNCHANGED <<client, connection, isConnected, security_logs, verification_results>>
  /\ UNCHANGED nonDatabaseVars

\* logAction: false when not connected, else one INSERT INTO audit_logs.
logAction(verifierId, action, details, queryOk) ==
  /\ Len(audit_logs) < MaxRows
  /\ audit_logs' =
       IF ~NotConnected /\ QueryRuns(queryOk)
         THEN Append(audit_logs, [verifier_id |-> verifierId, action |-> action, details |-> details])
         ELSE audit_logs
  /\ dbCall' = [op |-> "logAction",
                error |-> IF NotConnected THEN "NOT_CONNECTED"
                          ELSE IF QueryRuns(queryOk) THEN "NONE" ELSE "QUERY_FAILED"]
  /\ UNCHANGED <<client, connection, isConnected, security_logs, verification_results>>
  /\ UNCHANGED nonDatabaseVars

\* logSecurityEvent as a call of its own: `this.client?.query(INSERT ...)`
\* without the isConnected test, every error swallowed.
SecurityEventLogged(event, id, queryOk) ==
  /\ Len(security_logs) < MaxRows
  /\ security_logs' =
       IF client # Absent /\ QueryRuns(queryOk)
         THEN logSecurityEvent(security_logs, event, id) ELSE security_logs
  /\ dbCall' = [op |-> "logSecurityEvent", error |-> "NONE"]
  /\ UNCHANGED <<client, connection, isConnected, audit_logs, verification_results>>
  /\ UNCHANGED nonDatabaseVars

DatabaseNext ==
  \/ \E connectOk \in BOOLEAN, setupOk \in BOOLEAN : initDatabase(connectOk, setupOk)
  \/ \E endOk \in BOOLEAN : closeDatabase(endOk)
  \/ \E result \in ResultRows, queryOk \in BOOLEAN : insertVerificationResult(result, queryOk)
  \/ \E details \in LogoutTimes, queryOk \in BOOLEAN :
       logAction("V001", "LOGOUT", details, queryOk)
  \/ \E event \in {"LOGIN_SUCCESS", "LOGIN_FAILED"}, queryOk \in BOOLEAN :
       SecurityEventLogged(event, "V001", queryOk)

(***************************************************************************)
(* SystemMonitoringService timer (SystemMonitoringService.ts 18-24,        *)
(* 101-106).  Timer handles are numbered from 1 in the order setInterval   *)
(* hands them out.                                                         *)
(***************************************************************************)
NoTicks == [last |-> NULL, sinceStop |-> 0]

\* startMonitoring: monitoringInterval = setInterval(...), whatever the
\* field held before.
startMonitoring ==
  /\ timersCreated < MaxTimers
  /\ timersCreated' = timersCreated + 1
  /\ timers' = timers \cup {timersCreated + 1}
  /\ monitoringInterval' = timersCreated + 1
  /\ UNCHANGED healthChecks
  /\ UNCHANGED nonMonitorVars

\* stopMonitoring: clearInterval of the handle the field holds, if any.
stopMonitoring ==
  /\ IF monitoringInterval # NULL
       THEN timers' = timers \ {monitoringInterval} /\ monitoringInterval' = NULL
       ELSE UNCHANGED <<timers, monitoringInterval>>
  /\ healthChecks' = NoTicks
  /\ UNCHANGED timersCreated
  /\ UNCHANGED nonMonitorVars

\* An interval timer elapses: its callback runs checkSystemHealth,
\* monitorVerificationMetrics and detectAnomalies.
IntervalElapses(timer) ==
  /\ timer \in timers
  /\ healthChecks.sinceStop < MaxTicks
  /\ healthChecks' = [last |-> timer, sinceStop |-> healthChecks.sinceStop + 1]
  /\ UNCHANGED <<monitoringInterval, timers, timersCreated>>
  /\ UNCHANGED nonMonitorVars

MonitorNext ==
  \/ startMonitoring
  \/ stopMonitoring
  \/ \E timer \in 1..MaxTimers : IntervalElapses(timer)

(***************************************************************************)
(* Specifications.  Each leaves the variables of the other components      *)
(* at their initial values.                                                *)
(***************************************************************************)
LoginIdle == now = 0 /\ verifiers = [id \in {} |-> 0] /\ security_logs = <<>> /\ loginCall = NoCall
AggregatorIdle == stepInput = InitialSteps /\ aggregated = "NONE"
VaultIdle == vaultPlain = <<>> /\ vaultStored = <<>> /\ vaultOut = NoOutcome /\ vaultTampered = FALSE

ConcurrentIdle == loginCalls = <<>> /\ verifiersAtStart = <<>>
LookupIdle == lookup = NoLookup
StoreIdle == candidates = <<>> /\ storeCall = NoStoreCall
MonitorIdle ==
  monitoringInterval = NULL /\ timers = {} /\ timersCreated = 0 /\ healthChecks = NoTicks
ServiceIdle == DatabaseInit /\ MonitorIdle

LoginSpecInit ==
  LoginInit /\ ConcurrentIdle /\ LookupIdle /\ AggregatorIdle /\ VaultIdle /\ SessionInit /\ ShiftInit /\ StoreIdle /\ ServiceIdle
LoginSpec == LoginSpecInit /\ [][LoginNext]_vars

AggregatorSpecInit ==
  AggregatorInit /\ LoginIdle /\ ConcurrentIdle /\ LookupIdle /\ VaultIdle /\ SessionInit /\ ShiftInit /\ StoreIdle /\ ServiceIdle
AggregatorSpec == AggregatorSpecInit /\ [][AggregatorNext]_vars

VaultSpecInit ==
  VaultInit /\ LoginIdle /\ ConcurrentIdle /\ LookupIdle /\ AggregatorIdle /\ SessionInit /\ ShiftInit /\ StoreIdle /\ ServiceIdle
VaultSpec == VaultSpecInit /\ [][VaultNext]_vars

SessionSpecInit ==
  SessionInit /\ LoginIdle /\ ConcurrentIdle /\ LookupIdle /\ AggregatorIdle /\ VaultIdle /\ ShiftInit /\ StoreIdle /\ ServiceIdle
SessionSpec == SessionSpecInit /\ [][SessionNext]_vars

CaptureSpecInit ==
  SessionInit /\ LoginIdle /\ ConcurrentIdle /\ LookupIdle /\ AggregatorIdle /\ VaultIdle /\ ShiftInit /\ StoreIdle /\ ServiceIdle
CaptureSpec == CaptureSpecInit /\ [][CaptureNext]_vars

ScannerSpecInit ==
  SessionInit /\ LoginIdle /\ ConcurrentIdle /\ LookupIdle /\ AggregatorIdle /\ VaultIdle /\ ShiftInit /\ StoreIdle /\ ServiceIdle
ScannerSpec == ScannerSpecInit /\ [][ScannerNext]_vars

ConcurrentLoginSpecInit ==
  ConcurrentInit /\ LookupIdle /\ AggregatorIdle /\ VaultIdle /\ SessionInit /\ ShiftInit /\ StoreIdle /\ ServiceIdle
ConcurrentLoginSpec == ConcurrentLoginSpecInit /\ [][ConcurrentNext]_vars

LookupSpecInit ==
  LookupInit /\ ConcurrentIdle /\ AggregatorIdle /\ VaultIdle /\ SessionInit /\ ShiftInit /\ StoreIdle /\ ServiceIdle
LookupSpec == LookupSpecInit /\ [][LookupNext]_vars

ShiftSpecInit ==
  ShiftInit /\ LoginInit /\ ConcurrentIdle /\ LookupIdle /\ AggregatorIdle /\ VaultIdle
    /\ SessionInit /\ StoreIdle /\ ServiceIdle
ShiftSpec == ShiftSpecInit /\ [][ShiftNext]_vars

StoreSpecInit ==
  StoreInit /\ LoginIdle /\ ConcurrentIdle /\ LookupIdle /\ AggregatorIdle /\ VaultIdle
    /\ SessionInit /\ ShiftInit /\ ServiceIdle
StoreSpec == StoreSpecInit /\ [][StoreNext]_vars

DatabaseSpecInit ==
  DatabaseInit /\ MonitorIdle /\ LoginIdle /\ ConcurrentIdle /\ LookupIdle /\ AggregatorIdle
    /\ VaultIdle /\ SessionInit /\ ShiftInit /\ StoreIdle
DatabaseSpec == DatabaseSpecInit /\ [][DatabaseNext]_vars

MonitorSpecInit ==
  MonitorIdle /\ DatabaseInit /\ LoginIdle /\ ConcurrentIdle /\ LookupIdle /\ AggregatorIdle
    /\ VaultIdle /\ SessionInit /\ ShiftInit /\ StoreIdle
MonitorSpec == MonitorSpecInit /\ [][MonitorNext]_vars

(***************************************************************************)
(* Properties.                                                             *)
(***************************************************************************)
EventsOf(id) == SelectSeq(security_logs, LAMBDA e : e.id = id)

\* The last call was made for id with its correct password, and the three
\* calls for id before it each ended as LOGIN_FAILED.
ThreeFailedThenCorrect(id) ==
  LET ev == EventsOf(id)
      n == Len(ev)
  IN /\ loginCall.branch # "NONE"
     /\ loginCall.id = id
     /\ bcryptCompare(loginCall.password, verifiers[id].password_hash)
     /\ n >= MAX_LOGIN_ATTEMPTS + 1
     /\ \A k \in (n - MAX_LOGIN_ATTEMPTS)..(n - 1) : ev[k].event_type = "LOGIN_FAILED"

\* C1: after MAX_LOGIN_ATTEMPTS consecutive failed logins of a verifier, a
\* login with the correct password made before lastFailedAttempt +
\* LOCKOUT_DURATION returns success=false, accountLocked=true, an error and
\* no verifier; made once LOCKOUT_DURATION has elapsed it succeeds and
\* leaves failedAttempts at 0.
C1_LockoutThenRecovery ==
  \A id \in ExistingIds :
    ThreeFailedThenCorrect(id) =>
      IF loginCall.at < verifiers[id].last_failed_attempt + LOCKOUT_DURATION
        THEN /\ loginCall.outcome.success = FALSE
             /\ loginCall.outcome.accountLocked = Some(TRUE)
             /\ loginCall.outcome.error # Absent
             /\ loginCall.outcome.verifier = Absent
        ELSE /\ loginCall.outcome.success = TRUE
             /\ verifiers[id].failed_attempts = 0

C1_Witness ==
  /\ ThreeFailedThenCorrect("V001")
  /\ loginCall.outcome.accountLocked = Some(TRUE)

C1_WitnessRecovered ==
  /\ ThreeFailedThenCorrect("V001")
  /\ loginCall.outcome.success

\* C2: the final status is VERIFIED when all four steps are COMPLETED,
\* otherwise REJECTED when at least one step is FAILED, otherwise PARTIAL;
\* a step list with both a FAILED and a PENDING step gives REJECTED.
C2_FinalStatusPrecedence ==
  aggregated # "NONE" =>
    aggregated =
      IF \A s \in StepNames : stepInput[s].status = "COMPLETED" THEN "VERIFIED"
      ELSE IF \E s \in StepNames : stepInput[s].status = "FAILED" THEN "REJECTED"
      ELSE "PARTIAL"

C2_Witness ==
  /\ aggregated = "REJECTED"
  /\ stepInput["FACE_RECOGNITION"].status = "FAILED"
  /\ stepInput["RETINA"].status = "PENDING"

StepOrder(step) ==
  IF step = "SEARCH" THEN 0
  ELSE IF step = "QR_SCAN" THEN 0
  ELSE IF step = "FACE_RECOGNITION" THEN 1
  ELSE IF step = "FINGERPRINT" THEN 2
  ELSE IF step = "RETINA" THEN 3
  ELSE 4

BiometricSteps == {"FACE_RECOGNITION", "FINGERPRINT", "RETINA"}
Terminal == {"COMPLETED", "FAILED"}

\* C3: once a face, fingerprint or retina matcher result has been handled
\* (the step is COMPLETED or FAILED and its dialog is closed), the session
\* is past that step, whether the step ended COMPLETED or FAILED.
C3_AdvanceRegardless ==
  \A s \in BiometricSteps :
    (UIFree /\ verificationSteps[s].status \in Terminal) =>
      StepOrder(currentStep) > StepOrder(s)

\* C4: decryptBiometricData(encryptBiometricData(x)) = x for every template x.
C4_RoundTrip ==
  (vaultOut.kind # "none" /\ ~vaultTampered) =>
    (vaultOut.kind = "returned" /\ vaultOut.value = vaultPlain)

\* C5: decryptBiometricData of a tampered ciphertext ends in an error; it
\* never hands a value back to the caller.
C5_TamperRejected ==
  (vaultOut.kind # "none" /\ vaultTampered) => vaultOut.kind = "error"

\* C6: a login for an id with no verifier row, or with a deactivated row,
\* returns the generic failure (success=false, 'Invalid credentials',
\* accountLocked not set, no verifier).
C6_UnknownOrInactiveGeneric ==
  (/\ loginCall.branch # "NONE"
   /\ IF loginCall.id \in DOMAIN verifiers
        THEN ~verifiers[loginCall.id].is_active
        ELSE TRUE)
  => loginCall.outcome = GenericFailure

\* C7: a wrong-password login for an existing active id returns what the
\* same call returns for an id that has no row, however many wrong-password
\* logins came before.
C7_NoEnumeration ==
  (/\ loginCall.branch # "NONE"
   /\ loginCall.id \in DOMAIN verifiers
   /\ loginCall.password # ""
   /\ verifiers[loginCall.id].is_active
   /\ ~bcryptCompare(loginCall.password, verifiers[loginCall.id].password_hash))
  => loginCall.outcome = LoginOutcome(verifiers, "V404", loginCall.password, loginCall.at)

\* C8: at most one VerificationResult is persisted per verification session.
C8_OneResultPerSession ==
  \A i, j \in 1..Len(verification_results) :
    verification_results[i].session = verification_results[j].session => i = j

\* C9: an insert of a VerificationResult is issued only from a displayed
\* session in state SUMMARY that holds a candidate, for that candidate, and
\* a row enters verification_results only through such an insert.
C9_InsertOnlyFromSummary ==
  [][ /\ Len(pendingInserts') > Len(pendingInserts) =>
           /\ mounted
           /\ currentStep = "SUMMARY"
           /\ candidate # Absent
           /\ pendingInserts'[Len(pendingInserts')].row.rollNumber = candidate[1].rollNumber
      /\ verification_results' # verification_results =>
           /\ pendingInserts # <<>>
           /\ verification_results' =
                Append(verification_results, Head(pendingInserts).row) ]_vars

C9_Witness ==
  /\ mounted
  /\ currentStep = "SUMMARY"
  /\ candidate # Absent
  /\ verification_results # <<>>
  /\ verification_results[Len(verification_results)].session = session

\* C10: whenever the session is in SUMMARY, each of the four steps is
\* COMPLETED or FAILED.
C10_SummaryAllTerminal ==
  (mounted /\ currentStep = "SUMMARY") =>
    \A s \in StepNames : verificationSteps[s].status \in Terminal

DoneCallers == {c \in Callers : loginCalls[c].pc = "done"}

C12_ExactlyOneMutation ==
  \A c \in DoneCallers : loginCalls[c].updates = 1

\* C12 amended: every verifyLogin attempt performs at most one mutation of
\* the verifier's login counters: exactly one when it ends as a wrong
\* password or as a success, none when it ends as invalid input, locked,
\* or unknown or inactive id.
C12_AtMostOneMutation ==
  \A c \in Callers :
    /\ loginCalls[c].updates <= 1
    /\ loginCalls[c].pc = "done" =>
         loginCalls[c].updates =
           IF loginCalls[c].branch \in {"LOGIN_FAILED", "LOGIN_SUCCESS"} THEN 1 ELSE 0

C12_Witness ==
  \E c, d \in DoneCallers :
    /\ loginCalls[c].branch = "LOGIN_SUCCESS"
    /\ loginCalls[c].updates = 1
    /\ loginCalls[d].branch = "ACCOUNT_LOCKED_ATTEMPT"
    /\ loginCalls[d].updates = 0

\* The last row of security_logs.
LastEvent(logs) == logs[Len(logs)]

\* A step of LoginSpec that is a verifyLogin call: Tick leaves the tables
\* and loginCall alone, and a call stores its arguments in loginCall.
LoginStep ==
  <<verifiers, security_logs, loginCall>>' # <<verifiers, security_logs, loginCall>>
CalledId == loginCall'.id
CalledPassword == loginCall'.password

\* C13: while a verifier is locked (failedAttempts >= MAX_LOGIN_ATTEMPTS
\* and now < lastFailedAttempt + LOCKOUT_DURATION) a verifyLogin call for
\* it, with the right password or a wrong one, returns accountLocked=true
\* and no success, emits ACCOUNT_LOCKED_ATTEMPT and leaves failedAttempts,
\* lastFailedAttempt and lastSuccessfulLogin as they were.
C13_LockedFrame ==
  [][ (/\ LoginStep
       /\ CalledId \in DOMAIN verifiers
       /\ CalledPassword # ""
       /\ verifiers[CalledId].failed_attempts >= MAX_LOGIN_ATTEMPTS
       /\ now < verifiers[CalledId].last_failed_attempt + LOCKOUT_DURATION)
        => /\ loginCall'.outcome.success = FALSE
           /\ loginCall'.outcome.accountLocked = Some(TRUE)
           /\ loginCall'.outcome.verifier = Absent
           /\ Len(security_logs') = Len(security_logs) + 1
           /\ LastEvent(security_logs').event_type = "ACCOUNT_LOCKED_ATTEMPT"
           /\ verifiers'[CalledId].failed_attempts = verifiers[CalledId].failed_attempts
           /\ verifiers'[CalledId].last_failed_attempt =
                verifiers[CalledId].last_failed_attempt
           /\ verifiers'[CalledId].last_successful_login =
                verifiers[CalledId].last_successful_login ]_vars

\* A locked attempt with the right password, made after the failure that
\* locked the account, with the window still counted from that failure.
C13_Witness ==
  /\ loginCall.branch = "ACCOUNT_LOCKED_ATTEMPT"
  /\ loginCall.id = "V001"
  /\ loginCall.password = "password123"
  /\ loginCall.at > verifiers["V001"].last_failed_attempt

\* C14: a verifyLogin attempt with a wrong password for an existing,
\* active, non-locked verifier increases failedAttempts by exactly 1, sets
\* lastFailedAttempt to now, emits LOGIN_FAILED and returns the generic
\* failure (success=false, error 'Invalid credentials', no verifier).
C14_WrongPasswordIncrements ==
  [][ (/\ LoginStep
       /\ CalledId \in DOMAIN verifiers
       /\ CalledPassword # ""
       /\ verifiers[CalledId].is_active
       /\ ~(/\ verifiers[CalledId].failed_attempts >= MAX_LOGIN_ATTEMPTS
            /\ now < verifiers[CalledId].last_failed_attempt + LOCKOUT_DURATION)
       /\ ~bcryptCompare(CalledPassword, verifiers[CalledId].password_hash))
        => /\ verifiers'[CalledId].failed_attempts = verifiers[CalledId].failed_attempts + 1
           /\ verifiers'[CalledId].last_failed_attempt = now
           /\ Len(security_logs') = Len(security_logs) + 1
           /\ LastEvent(security_logs').event_type = "LOGIN_FAILED"
           /\ loginCall'.outcome.success = FALSE
           /\ loginCall'.outcome.error = Some("Invalid credentials")
           /\ loginCall'.outcome.verifier = Absent ]_vars

\* A wrong password made after an earlier failure at an earlier time.
C14_Witness ==
  /\ loginCall.branch = "LOGIN_FAILED"
  /\ loginCall.id = "V001"
  /\ verifiers["V001"].failed_attempts = 2
  /\ loginCall.at > 0
  /\ verifiers["V001"].last_failed_attempt = loginCall.at

\* C15: a verifyLogin attempt with the correct password for an active,
\* non-locked verifier sets failedAttempts to 0, sets lastSuccessfulLogin to
\* now, emits LOGIN_SUCCESS and returns success=true with the verifier; no
\* outcome of verifyLogin contains the password or the password hash.
C15_SuccessResets ==
  [][ LoginStep =>
          /\ (/\ CalledId \in DOMAIN verifiers
              /\ verifiers[CalledId].is_active
              /\ ~(/\ verifiers[CalledId].failed_attempts >= MAX_LOGIN_ATTEMPTS
                   /\ now < verifiers[CalledId].last_failed_attempt + LOCKOUT_DURATION)
              /\ bcryptCompare(CalledPassword, verifiers[CalledId].password_hash))
             => /\ verifiers'[CalledId].failed_attempts = 0
                /\ verifiers'[CalledId].last_successful_login = now
                /\ Len(security_logs') = Len(security_logs) + 1
                /\ LastEvent(security_logs').event_type = "LOGIN_SUCCESS"
                /\ loginCall'.outcome.success = TRUE
                /\ loginCall'.outcome.verifier # Absent
                /\ loginCall'.outcome.verifier[1].id = CalledId
          /\ loginCall'.outcome.error # Some(CalledPassword)
          /\ loginCall'.outcome.verifier # Absent =>
               /\ DOMAIN loginCall'.outcome.verifier[1] = {"id", "password"}
               /\ loginCall'.outcome.verifier[1].password = "" ]_vars

\* A success that follows a failed attempt of the same verifier.
C15_Witness ==
  /\ loginCall.branch = "LOGIN_SUCCESS"
  /\ loginCall.id = "V001"
  /\ \E i \in 1..Len(security_logs) :
       /\ security_logs[i].id = "V001"
       /\ security_logs[i].event_type = "LOGIN_FAILED"
  /\ verifiers["V001"].failed_attempts = 0
  /\ verifiers["V001"].last_successful_login = loginCall.at

\* The severity taxonomy as the specification lists it.
TaxonomySeverity(event) ==
  CASE event \in {"ACCOUNT_LOCKED_ATTEMPT", "SQL_INJECTION_ATTEMPT", "UNAUTHORIZED_ACCESS"}
         -> "CRITICAL"
    [] event \in {"LOGIN_FAILED", "PERMISSION_DENIED", "DATA_BREACH_ATTEMPT"} -> "HIGH"
    [] event \in {"LOGIN_SUCCESS", "DATA_ACCESS", "VERIFICATION_COMPLETED"} -> "MEDIUM"
    [] OTHER -> "LOW"

\* The nine event types the taxonomy names, the other ones the service
\* emits, and one it never emits.
EventTypes ==
  {"ACCOUNT_LOCKED_ATTEMPT", "SQL_INJECTION_ATTEMPT", "UNAUTHORIZED_ACCESS",
   "LOGIN_FAILED", "PERMISSION_DENIED", "DATA_BREACH_ATTEMPT",
   "LOGIN_SUCCESS", "DATA_ACCESS", "VERIFICATION_COMPLETED",
   "LOGIN_INVALID_INPUT", "LOGIN_INVALID_USER", "LOGIN_ERROR", "DATA_ACCESS_ERROR",
   "SOMETHING_ELSE"}

\* C16: the severity of a security event is a fixed function of its event
\* type (CRITICAL, HIGH, MEDIUM for the three named groups, LOW for every
\* other type), and every row of security_logs carries the severity this
\* function gives for its event type.
C16_SeverityMapping ==
  /\ \A e \in EventTypes : getEventSeverity(e) = TaxonomySeverity(e)
  /\ \A i \in 1..Len(security_logs) :
       security_logs[i].severity = TaxonomySeverity(security_logs[i].event_type)

\* A log holding a HIGH, a CRITICAL and a LOW row.
C16_Witness ==
  /\ \E i \in 1..Len(security_logs) :
       security_logs[i].event_type = "LOGIN_FAILED" /\ security_logs[i].severity = "HIGH"
  /\ \E i \in 1..Len(security_logs) :
       /\ security_logs[i].event_type = "ACCOUNT_LOCKED_ATTEMPT"
       /\ security_logs[i].severity = "CRITICAL"
  /\ \E i \in 1..Len(security_logs) :
       security_logs[i].event_type = "LOGIN_INVALID_USER" /\ security_logs[i].severity = "LOW"

\* C17: a verifyLogin call with an empty id or an empty password returns
\* success=false with the generic error, emits one LOGIN_INVALID_INPUT event
\* of severity LOW, and changes no verifier's failedAttempts,
\* lastFailedAttempt or lastSuccessfulLogin, whatever the state of the
\* verifier named by the id.
C17_EmptyInputRejected ==
  [][ (LoginStep /\ (CalledId = "" \/ CalledPassword = ""))
        => /\ loginCall'.outcome.success = FALSE
           /\ loginCall'.outcome.error = Some("Invalid credentials")
           /\ loginCall'.outcome.accountLocked = Absent
           /\ loginCall'.outcome.verifier = Absent
           /\ Len(security_logs') = Len(security_logs) + 1
           /\ LastEvent(security_logs').event_type = "LOGIN_INVALID_INPUT"
           /\ LastEvent(security_logs').severity = "LOW"
           /\ verifiers' = verifiers ]_vars

\* An empty password given for V001 while V001 is locked.
C17_Witness ==
  /\ loginCall.branch = "LOGIN_INVALID_INPUT"
  /\ loginCall.id = "V001"
  /\ loginCall.password = ""
  /\ IsLockedOut(verifiers["V001"], loginCall.at)

\* C18: for a verifier with isActive=false no verifyLogin call returns
\* success=true, even with the correct password and whatever the lockout
\* state; the attempt leaves the verifier's counters as they were and the
\* row in the table.
C18_InactiveNeverSucceeds ==
  [][ (/\ LoginStep
       /\ CalledId \in DOMAIN verifiers
       /\ ~verifiers[CalledId].is_active)
        => /\ loginCall'.outcome.success = FALSE
           /\ loginCall'.outcome.verifier = Absent
           /\ CalledId \in DOMAIN verifiers'
           /\ verifiers'[CalledId] = verifiers[CalledId] ]_vars

\* The correct password given for the deactivated V003 once the lockout its
\* counters describe has expired.
C18_Witness ==
  /\ loginCall.branch = "LOGIN_INVALID_USER"
  /\ loginCall.id = "V003"
  /\ bcryptCompare(loginCall.password, verifiers["V003"].password_hash)
  /\ verifiers["V003"].failed_attempts = MAX_LOGIN_ATTEMPTS
  /\ ~verifiers["V003"].is_active

\* The calls for id that ran the mismatch UPDATE.
FailedCallsFor(id) ==
  {c \in Callers : loginCalls[c].id = id /\ loginCalls[c].branch = "LOGIN_FAILED"}

Quiescent == \A c \in Callers : loginCalls[c].pc \in {"idle", "done"}

\* C19: when k verifyLogin calls with wrong passwords for the same active
\* verifier run concurrently and each passes the lockout check,
\* failedAttempts ends at its initial value plus k under every
\* interleaving of their statements.
C19_ConcurrentIncrements ==
  \A id \in ExistingIds :
    (/\ Quiescent
     /\ \A c \in Callers : loginCalls[c].id = id => loginCalls[c].branch # "LOGIN_SUCCESS")
    => verifiers[id].failed_attempts =
         verifiersAtStart[id].failed_attempts + Cardinality(FailedCallsFor(id))

\* Every caller made a wrong-password call for V001 and all of them read
\* the row before any of them updated it.
C19_Witness ==
  /\ Quiescent
  /\ FailedCallsFor("V001") = Callers
  /\ \A c \in Callers : loginCalls[c].user = Some(verifiersAtStart["V001"])
  /\ verifiers["V001"].failed_attempts =
       verifiersAtStart["V001"].failed_attempts + MaxCalls

\* C20: getCandidateByRollNumber validates the trimmed, upper-cased roll
\* number against [A-Z0-9]{6,15} before any store access: for a malformed
\* roll number no query is issued to the candidates table, the call fails,
\* and the rejection is logged as an invalid-access security event.
C20_MalformedRollRejected ==
  (/\ lookup.pc = "done"
   /\ ~RollPattern(ToUpperCase(TrimChars(lookup.rollNumber))))
  => /\ lookup.queries = <<>>
     /\ lookup.kind = "throws"
     /\ security_logs # <<>>
     /\ LastEvent(security_logs).event_type = "DATA_ACCESS_ERROR"

\* The per-step booleans of a persisted row.
StepBooleans(row) ==
  <<row.qrScanned, row.faceVerified, row.fingerprintVerified, row.retinaVerified>>

C21_ScanResolvesPayloadRoll ==
  [][ \A p \in QRPayloads, dbOk \in BOOLEAN, dbOk2 \in BOOLEAN :
        onQRCodeScanned(p, dbOk, dbOk2) =>
          /\ candidate' # Absent => candidate'[1].rollNumber = QRRollNumber(p)
          /\ getCandidateByRollNumber(QRRollNumber(p), dbOk).kind # "found" =>
               /\ candidate' = Absent
               /\ verificationSteps' = verificationSteps
               /\ currentStep' = "SEARCH" ]_vars

\* C22: in SEARCH, a roll-number search that finds the candidate sets it,
\* marks QR_SCAN COMPLETED (the other steps untouched) and moves to
\* FACE_RECOGNITION; a search that finds nothing leaves the session in
\* SEARCH with no candidate and every step status unchanged.
C22_SearchFrame ==
  [][ \A roll \in RollInputs, dbOk \in BOOLEAN :
        searchByRollNumber(roll, dbOk) =>
          IF dbOk /\ Sanitize(roll) \in CandidateRolls
            THEN /\ candidate' = Some(Candidate(Sanitize(roll)))
                 /\ verificationSteps'["QR_SCAN"].status = "COMPLETED"
                 /\ \A s \in StepNames \ {"QR_SCAN"} :
                      verificationSteps'[s] = verificationSteps[s]
                 /\ currentStep' = "FACE_RECOGNITION"
            ELSE /\ currentStep' = "SEARCH"
                 /\ candidate' = Absent
                 /\ verificationSteps' = verificationSteps ]_vars

C22_Witness ==
  /\ mounted
  /\ session = 2
  /\ candidate = Some(Candidate("JEE2024002"))
  /\ currentStep = "FACE_RECOGNITION"
  /\ verificationSteps["QR_SCAN"].status = "COMPLETED"
  /\ verificationSteps["FACE_RECOGNITION"].status = "PENDING"

\* C23: FACE_RECOGNITION becomes COMPLETED, with the matcher's confidence
\* stored, exactly when the matcher answered isMatch = true; in every other
\* case (isMatch = false at any confidence, or a failure) it becomes FAILED.
C23_FaceFollowsIsMatch ==
  [][ \A answer \in MatcherAnswers, threw \in BOOLEAN :
        onFaceVerificationComplete(
          performFaceVerification(answer.isMatch, answer.confidence, threw)) =>
          IF answer.isMatch /\ ~threw
            THEN verificationSteps'["FACE_RECOGNITION"] =
                   [status |-> "COMPLETED", confidence |-> Some(answer.confidence)]
            ELSE verificationSteps'["FACE_RECOGNITION"].status = "FAILED" ]_vars

\* The matcher answered isMatch = false at the threshold and the step failed.
C23_Witness ==
  /\ mounted
  /\ verificationSteps["FACE_RECOGNITION"] =
       [status |-> "FAILED", confidence |-> Some(75)]
  /\ currentStep = "FACE_RECOGNITION"

\* C25: the verifierId stored in a persisted VerificationResult is the id
\* of the verifier who logged in and ran the session, for every verifier.
C25_ResultCarriesLoggedInVerifier ==
  [][ Len(pendingInserts') > Len(pendingInserts) /\ LoggedInVerifier # Absent =>
        pendingInserts'[Len(pendingInserts')].row.verifierId = LoggedInVerifier[1] ]_vars

\* C26: 'New Verification' after a completed verification resets the
\* session: all four steps PENDING with no confidence left from the
\* previous session, the candidate cleared and the state SEARCH.
C26_NewVerificationResets ==
  [][ PressNewVerification /\ FrontLive =>
        /\ verificationSteps' = InitialSteps
        /\ candidate' = Absent
        /\ currentStep' = "SEARCH" ]_vars

\* C27: a session resolves only candidates inside the assignment of the
\* logged-in verifier (exam date, shift and centre equal to the verifier's).
C27_ResolvedWithinAssignment ==
  [][ candidate' # candidate /\ candidate' # Absent /\ LoggedInVerifier # Absent =>
        candidate'[1].rollNumber \in getCandidatesByVerifier(LoggedInVerifier[1]) ]_vars

\* A column value of the form <hex nonce>:<hex ciphertext>.
IsEncrypted(str) ==
  /\ Includes(str, Colon)
  /\ Len(SplitFirst(str)) > 0
  /\ \A i \in 1..Len(str) : str[i] = Colon \/ HexValue(str[i]) >= 0

\* C28: every non-absent template stored in candidates is encrypted (nonce,
\* separator, ciphertext); no writer stores a plaintext template.
C28_TemplatesEncrypted ==
  \A k \in 1..Len(candidates) :
    candidates[k].fingerprint1 # <<>> => IsEncrypted(candidates[k].fingerprint1)

\* The rows of the table with a roll number.
RowsOf(table, roll) == {k \in 1..Len(table) : table[k].rollNumber = roll}

\* The last row of the input with the roll number of row i.
LastOfRoll(list, i) ==
  list[CHOOSE j \in 1..Len(list) :
         /\ list[j].rollNumber = list[i].rollNumber
         /\ \A m \in (j + 1)..Len(list) : list[m].rollNumber # list[i].rollNumber]

\* C29: inserting, through insertCandidate or bulkInsertCandidates, a
\* candidate whose rollNumber is already stored updates the stored name,
\* leaves exactly one row with that rollNumber and does not change the
\* number of rows.
C29_UpsertUpdatesInPlace ==
  [][ storeCall'.op \in {"insertCandidate", "bulkInsertCandidates"} =>
        LET list == storeCall'.input IN
          /\ \A i \in 1..Len(list) :
               HasRoll(candidates, list[i].rollNumber) /\ ~RowRejected(list[i]) =>
                 /\ Cardinality(RowsOf(candidates', list[i].rollNumber)) = 1
                 /\ \A k \in RowsOf(candidates', list[i].rollNumber) :
                      candidates'[k].name = LastOfRoll(list, i).name
          /\ (\A i \in 1..Len(list) : HasRoll(candidates, list[i].rollNumber)) =>
               Len(candidates') = Len(candidates) ]_vars

\* Row i of the input is in the table as the call wrote it.
RowPersisted(table, list, i) ==
  \E k \in RowsOf(table, list[i].rollNumber) :
    /\ table[k].name = LastOfRoll(list, i).name
    /\ table[k].examDate = LastOfRoll(list, i).examDate

\* C30: bulkInsertCandidates reports each row independently: success +
\* failed is the number of input rows, success is the number of input rows
\* persisted after the commit, and a row the table accepts is persisted
\* whatever happens to the other rows.
C30_BulkReportsEachRow ==
  storeCall.op = "bulkInsertCandidates" =>
    LET list == storeCall.input IN
      /\ storeCall.success + storeCall.failed = Len(list)
      /\ storeCall.success =
           Cardinality({i \in 1..Len(list) : RowPersisted(candidates, list, i)})
      /\ \A i \in 1..Len(list) :
           ~RowRejected(list[i]) => RowPersisted(candidates, list, i)

\* The name, roll number and exam date of a stored row are not empty.
RequiredPresent(row) == row.rollNumber # "" /\ row.name # "" /\ row.examDate # ""

\* The rows of a file that are complete and that the table accepts.
Savable(rows) ==
  {i \in 1..Len(rows) :
     MissingFields(rows[i]) = {} /\ ~RowRejected(CsvCandidate(rows[i]))}

\* C31: the CSV import leaves no row without its required fields: every
\* row it writes has them, nothing is written when the CSV has parse
\* errors, and the imported count is the number of inserts that succeeded.
C31_ImportKeepsRequiredFields ==
  [][ \A rows \in CsvFiles, parseErrors \in BOOLEAN :
        processCSVData(rows, parseErrors) =>
          /\ \A k \in 1..Len(candidates') :
               (k > Len(candidates) \/ candidates'[k] # candidates[k]) =>
                 RequiredPresent(candidates'[k])
          /\ parseErrors => candidates' = candidates
          /\ storeCall'.success = IF parseErrors THEN 0 ELSE Cardinality(Savable(rows)) ]_vars

\* old is what new starts with: every row of old is still there, unaltered
\* and at its place.
KeepsRows(old, new) == Len(new) >= Len(old) /\ SubSeq(new, 1, Len(old)) = old

\* C32: verification_results, audit_logs and security_logs are append-only:
\* every DatabaseService operation leaves each row already in one of the
\* three tables in place with its fields unchanged, and the tables only grow.
C32_TablesAppendOnly ==
  [][ /\ KeepsRows(verification_results, verification_results')
      /\ KeepsRows(audit_logs, audit_logs')
      /\ KeepsRows(security_logs, security_logs') ]_vars

\* Each of the three tables has been written to, audit_logs twice for the
\* same verifier.
C32_Witness ==
  /\ Len(verification_results) >= 1
  /\ Len(security_logs) >= 1
  /\ Len(audit_logs) = 2 /\ audit_logs[1].verifier_id = audit_logs[2].verifier_id
  /\ audit_logs[1].details # audit_logs[2].details

\* C39: a further initDatabase call made while the service is connected over
\* an open connection does not mark it disconnected, so isConnected stays
\* true exactly while the connection is open.
C39_FurtherInitKeepsConnected ==
  [][ (isConnected /\ connection = "OPEN" /\ dbCall'.op = "initDatabase")
        => (isConnected' <=> connection' = "OPEN") ]_vars

\* C40: once stopMonitoring has returned (the handle is null) no health
\* check fires until the next startMonitoring, and at most one interval
\* timer is active at any time.
C40_StopSilencesChecks ==
  /\ Cardinality(timers) <= 1
  /\ monitoringInterval = NULL => healthChecks.sinceStop = 0

\* The biometric steps that come before a value of currentStep.
StepsBefore(step) ==
  IF step = "FINGERPRINT" THEN {"FACE_RECOGNITION"}
  ELSE IF step = "RETINA" THEN {"FACE_RECOGNITION", "FINGERPRINT"}
  ELSE IF step = "SUMMARY" THEN {"FACE_RECOGNITION", "FINGERPRINT", "RETINA"}
  ELSE {}

\* currentStep moves from a biometric step to the one after it.
Advances ==
  <<currentStep, currentStep'>> \in
    {<<"FACE_RECOGNITION", "FINGERPRINT">>, <<"FINGERPRINT", "RETINA">>, <<"RETINA", "SUMMARY">>}

\* C33: no biometric step before the current one is IN_PROGRESS, and the
\* session advances from a biometric step only on that step's matcher
\* result (the step is COMPLETED), never while a matcher call is outstanding.
C33_NeverPastInProgress ==
  [][ /\ \A s \in StepsBefore(currentStep') : verificationSteps'[s].status # "IN_PROGRESS"
      /\ Advances => matcher' = "NONE" /\ StepCompleted(verificationSteps', currentStep) ]_vars

\* The session is in RETINA with a retina scan IN_PROGRESS and its matcher
\* call outstanding, both earlier steps settled.
C33_Witness ==
  /\ mounted /\ currentStep = "RETINA" /\ matcher = "RETINA"
  /\ verificationSteps["RETINA"].status = "IN_PROGRESS"
  /\ verificationSteps["FINGERPRINT"].status = "COMPLETED"

\* C38: every persisted VerificationResult has faceVerified,
\* fingerprintVerified and retinaVerified all true, and none has
\* finalStatus REJECTED.
C38_PersistedAllBiometricsTrue ==
  \A i \in 1..Len(verification_results) :
    /\ verification_results[i].faceVerified
    /\ verification_results[i].fingerprintVerified
    /\ verification_results[i].retinaVerified
    /\ verification_results[i].finalStatus # "REJECTED"

\* The scanner view of a step is on screen.
ScannerShown(type) == IF type = "FINGERPRINT" THEN showFingerprint ELSE showRetina

\* C34: a matcher that is unavailable or fails yields FAILED for its step:
\* when the scanner view of an IN_PROGRESS step closes with its device not
\* connected, or a scan ends without a match, the step is FAILED and not
\* left IN_PROGRESS.
C34_UnavailableMatcherFails ==
  [][ \A type \in {"FINGERPRINT", "RETINA"} :
        /\ ( /\ ScannerShown(type) /\ ~ScannerShown(type)'
             /\ verificationSteps[type].status = "IN_PROGRESS"
             /\ ~deviceConnected )
           => verificationSteps'[type].status = "FAILED"
        /\ ( /\ matcher = type /\ matcher' = "NONE"
             /\ verificationSteps'[type].status # "COMPLETED" )
           => verificationSteps'[type].status = "FAILED" ]_vars

\* C35: the 'Login Successful' dialog is shown, and Admin is reached, only
\* for a verifyLogin result with success = true; any other result leaves
\* the verifier on Login.
C35_SuccessOnlyNavigation ==
  /\ navigation.dialog.kind = "LOGIN_SUCCESSFUL" => navigation.dialog.verifier[1].success
  /\ navigation.route = "Admin" => navigation.verifier[1].success

\* C36: under every interleaving of concurrent verifyLogin calls for one
\* verifier, failed_attempts never exceeds MAX_LOGIN_ATTEMPTS, and a call
\* whose password comparison starts when the counter has reached the limit
\* does not go on to the success path.
C36_LimitHoldsUnderConcurrency ==
  [][ /\ verifiers'["V001"].failed_attempts <= MAX_LOGIN_ATTEMPTS
      /\ \A c \in Callers :
           ( /\ loginCalls[c].pc = "compare" /\ loginCalls'[c].pc = "updateSuccess"
             /\ loginCalls[c].id = "V001" )
           => verifiers["V001"].failed_attempts < MAX_LOGIN_ATTEMPTS ]_vars

\* C37: the expiry of the lockout window does not reset the counter.
\* failed_attempts decreases only in a successful login of that verifier,
\* and a wrong password given after the window has elapsed with
\* failed_attempts >= MAX_LOGIN_ATTEMPTS increments it, stamps
\* last_failed_attempt and locks the verifier for a full LOCKOUT_DURATION.
C37_ExpiryKeepsCounter ==
  [][ /\ \A id \in ExistingIds :
           verifiers'[id].failed_attempts < verifiers[id].failed_attempts
             => loginCall'.branch = "LOGIN_SUCCESS" /\ CalledId = id
      /\ ( /\ LoginStep
           /\ loginCall'.branch = "LOGIN_FAILED"
           /\ verifiers[CalledId].failed_attempts >= MAX_LOGIN_ATTEMPTS )
         => /\ now >= verifiers[CalledId].last_failed_attempt + LOCKOUT_DURATION
            /\ verifiers'[CalledId].failed_attempts = verifiers[CalledId].failed_attempts + 1
            /\ verifiers'[CalledId].last_failed_attempt = now
            /\ \A t \in now..(now + LOCKOUT_DURATION - 1) :
                 IsLockedOut(verifiers'[CalledId], t) ]_vars

\* V001 gave a wrong password after its lockout had expired: the fourth
\* failure is counted.
C37_Witness ==
  /\ loginCall.branch = "LOGIN_FAILED" /\ loginCall.id = "V001"
  /\ verifiers["V001"].failed_attempts = MAX_LOGIN_ATTEMPTS + 1
  /\ verifiers["V001"].last_failed_attempt = loginCall.at
  /\ loginCall.at >= LOCKOUT_DURATION
====
